---- MODULE Spec2Model ----
(***************************************************************************)
(* A model of onmt/Models.py: the decoder state container                  *)
(* (DecoderState, RNNDecoderState), the input-feeding decoder's forward    *)
(* pass, and the tensor bookkeeping of the answer-aware encoders; and of   *)
(* the preprocessing scripts my/preprocessing_embedding_pytorch.py         *)
(* (match_embeddings) and my/JsonFilePreprocess.py (PtStyleDataGenerator). *)
(*                                                                         *)
(* Tensors are sequences indexed from 1 (the code indexes from 0): a       *)
(* tensor of size a x br x d is a sequence of a planes, each a sequence of *)
(* br rows, each a sequence of d scalars.  The recurrent cell, the         *)
(* attention module and the embeddings live outside this file; what they   *)
(* return is modelled as opaque scalars tagged with the place that         *)
(* produced them, and attention weights (which the code adds up) as small  *)
(* non-negative integers chosen by the environment.                        *)
(***************************************************************************)
EXTENDS Integers, Sequences, FiniteSets, TLC

\* ------------------------------------------------------------------ bounds
MaxBatch == 2       \* sentences in a batch
MaxBeam == 2        \* beam width
NumLayers == 2      \* recurrent layers of the encoder and the decoder
EncDim == 1         \* width of one direction of the encoder's final state
MaxPositions == 3   \* target positions decoded in one session, over all calls
CtxLen == 2         \* passage positions of the encoder context
MaxCols == 4        \* rows of the batch axis after beam replication
MaxSrcLen == 3      \* padded length of a passage batch
MaxEncBatch == 2    \* passages in a batch given to a gated encoder
MaxAnsLen == 2      \* padded length of an answer batch
MaxAnsBatch == 3    \* passage-answer pairs in a batch given to an answer-aware encoder
MaxLines == 3       \* lines of an embedding file
emb_dim == 2        \* opt.emb_dim, the fields of a well-formed embedding line
MaxExamples == 3    \* questions of a data split

\* ------------------------------------------------------- program constants
AnsIndicator == 3   \* the feature index that marks an answer position
BlankIdx == 1       \* the vocabulary index of <blank>
Py3Layers == 2      \* the num_layers PyBiRNNEncoder3 asserts

VARIABLES dec, state, beam, pc, call, last, count, enc, model, matching, gen

vars == <<dec, state, beam, pc, call, last, count, enc, model, matching, gen>>

\* Python's None, and an absent tensor.
None == <<>>

\* ------------------------------------------------------------------ tensors
Zero == <<"zero">>

\* e.size() of a tensor with three axes
Size(e) == <<Len(e), Len(e[1]), Len(e[1][1])>>

\* context.data.new(batch_size, hidden_size).zero_().unsqueeze(0)
ZeroFeed(batch_size, hidden_size) == << [j \in 1..batch_size |-> [x \in 1..hidden_size |-> Zero]] >>

\* e.data.repeat(1, beam_size, 1): the batch axis is tiled beam_size times
Repeat_Stretch(e, beam_size) == [l \in 1..Len(e) |-> [j \in 1..(beam_size * Len(e[l])) |-> e[l][((j - 1) \div beam_size) + 1]]]

Repeat(e, beam_size) == [l \in 1..Len(e) |-> [j \in 1..(beam_size * Len(e[l])) |-> e[l][((j - 1) % Len(e[l])) + 1]]]

\* e.view(a, beam_size, br // beam_size, d): plane l, beam slot k, sentence s
\* (all from 1) is row (k-1)*(br // beam_size) + s of plane l
ViewRow(k, s, nsent) == (k - 1) * nsent + s

\* a view that takes the beam slots of a sentence to be neighbouring rows
SentStates_SentenceMajor(e, idx, beam_size) == [l \in 1..Len(e) |-> [k \in 1..beam_size |-> e[l][idx * beam_size + k]]]

\* e.view(...)[:, :, idx]: for each plane, the rows of sentence idx, one per slot
SentStates(e, idx, beam_size) == [l \in 1..Len(e) |-> [k \in 1..beam_size |-> e[l][ViewRow(k, idx + 1, Len(e[l]) \div beam_size)]]]

\* t.index_select(1, positions): entry k of the result is entry positions[k] of t
IndexSelect1(t, positions) == [l \in 1..Len(t) |-> [k \in 1..Len(positions) |-> t[l][positions[k] + 1]]]

\* sent_states.data.copy_(src): writes src through the view into e
CopyIntoView(e, idx, beam_size, src) == [l \in 1..Len(e) |-> [j \in 1..Len(e[l]) |-> IF (j - 1) % (Len(e[l]) \div beam_size) = idx THEN src[l][((j - 1) \div (Len(e[l]) \div beam_size)) + 1] ELSE e[l][j]]]

\* one iteration of the loop of DecoderState.beam_update
BeamUpdateTensor_SentenceMajor(e, idx, positions, beam_size) == [l \in 1..Len(e) |-> [j \in 1..Len(e[l]) |-> IF (j - 1) \div beam_size = idx THEN e[l][idx * beam_size + positions[((j - 1) % beam_size) + 1] + 1] ELSE e[l][j]]]

BeamUpdateTensor(e, idx, positions, beam_size) == CopyIntoView(e, idx, beam_size, IndexSelect1(SentStates(e, idx, beam_size), positions))

\* RNNDecoderState._all
All(s) == s.hidden \o <<s.input_feed>>

\* the batch size of a state: the rows of its input feed
BatchOf(s) == Len(s.input_feed[1])

\* ------------------------------------------------------- decoder construction
\* RNNDecoderBase.__init__: the options a decoder is built with
\* input_feed tells an InputFeedRNNDecoder from a StdRNNDecoder
DecoderConfigs == [bidirectional_encoder : BOOLEAN, num_layers : {NumLayers}, coverage : BOOLEAN, copy : BOOLEAN, input_feed : BOOLEAN]

\* self.hidden_size: the encoder splits it between its directions
HiddenSize(d) == IF d.bidirectional_encoder THEN 2 * EncDim ELSE EncDim

\* one tensor of the encoder's final state, (layers*directions) x batch x dim,
\* with pairwise distinct entries; c tells h (1) from c (2)
EncFinal(c, d, batch) == [r \in 1..(d.num_layers * (IF d.bidirectional_encoder THEN 2 ELSE 1)) |-> [b \in 1..batch |-> [x \in 1..EncDim |-> <<"enc", c, r, b, x>>]]]

\* RNNDecoderBase._fix_enc_hidden
FixEncHidden_NoMerge(d, h) == h

FixEncHidden(d, h) == IF d.bidirectional_encoder THEN [l \in 1..(Len(h) \div 2) |-> [b \in 1..Len(h[1]) |-> h[2 * l - 1][b] \o h[2 * l][b]]] ELSE h

\* RNNDecoderState.__init__; is_tuple is isinstance(rnnstate, tuple)
NewState(ctx_batch, hidden_size, rnnstate, is_tuple) == [hidden |-> IF is_tuple THEN rnnstate ELSE <<rnnstate>>, input_feed |-> ZeroFeed(ctx_batch, hidden_size), coverage |-> None]

\* no decoder state has been made yet
NoState == [hidden |-> None, input_feed |-> None, coverage |-> None]

\* no decoder call has been made yet
NoCall == [n |-> 0]

\* no encoder call has been made yet
NoEnc == [kind |-> "none"]

\* no translation model has been built around the decoder
NoModel == [kind |-> "none"]

\* no embedding file is being matched
NoMatching == [kind |-> "none", at |-> "none"]

\* no data split is being written
NoGen == [kind |-> "none", at |-> "none"]

\* a decoder has been built and no decoder state made yet
InitWith(configs) ==
    /\ dec \in configs
    /\ state = NoState
    /\ beam = 0
    /\ pc = "new"
    /\ call = NoCall
    /\ last = [op |-> "construct", raised |-> FALSE]
    /\ count = [calls |-> 0, positions |-> 0]
    /\ enc = NoEnc
    /\ model = NoModel
    /\ matching = NoMatching
    /\ gen = NoGen

\* RNNDecoderBase.init_decoder_state on an encoder result of batch size batch:
\* an LSTM encoder returns the tuple (h, c), a GRU encoder one tensor
InitDecoderState(batch, is_tuple) ==
    /\ pc = "new"
    /\ LET enc_hidden == IF is_tuple THEN <<EncFinal(1, dec, batch), EncFinal(2, dec, batch)>> ELSE EncFinal(1, dec, batch)
           rnnstate == IF is_tuple THEN [c \in 1..Len(enc_hidden) |-> FixEncHidden(dec, enc_hidden[c])] ELSE FixEncHidden(dec, enc_hidden)
       IN  state' = NewState(batch, HiddenSize(dec), rnnstate, is_tuple)
    /\ last' = [op |-> "init", raised |-> FALSE, is_tuple |-> is_tuple]
    /\ pc' = "idle"
    /\ UNCHANGED <<dec, model, matching, gen, beam, call, count, enc>>

\* ------------------------------------------------------------ beam operations
\* a replication that tiles the coverage as well
RepeatState_WithCoverage(s, beam_size) == [s EXCEPT !.hidden = [c \in 1..Len(s.hidden) |-> Repeat(s.hidden[c], beam_size)], !.input_feed = Repeat(s.input_feed, beam_size), !.coverage = IF s.coverage = None THEN None ELSE Repeat(s.coverage, beam_size)]

\* RNNDecoderState.repeat_beam_size_times
RepeatState(s, beam_size) == [s EXCEPT !.hidden = [c \in 1..Len(s.hidden) |-> Repeat(s.hidden[c], beam_size)], !.input_feed = Repeat(s.input_feed, beam_size)]

\* DecoderState.detach: h.detach_() on every tensor of _all cuts it from the
\* graph that computed it and keeps its size and entries; the coverage is not
\* in _all
DetachState(s) == [s EXCEPT !.hidden = [c \in 1..Len(s.hidden) |-> s.hidden[c]], !.input_feed = s.input_feed]

\* training detaches the state between two calls of the decoder; the
\* translator, which replicates it, does not
Detach ==
    /\ pc = "idle"
    /\ beam = 0
    /\ state' = DetachState(state)
    /\ last' = [op |-> "detach", raised |-> FALSE]
    /\ call' = NoCall
    /\ UNCHANGED <<dec, model, matching, gen, beam, pc, count, enc>>

\* the translator replicates the state once, when beam search starts, and
\* keeps the width it used
RepeatBeamSizeTimes(beam_size) ==
    /\ pc = "idle"
    /\ beam = 0
    /\ BatchOf(state) * beam_size <= MaxCols
    /\ state' = RepeatState(state, beam_size)
    /\ beam' = beam_size
    /\ last' = [op |-> "repeat", raised |-> FALSE]
    /\ call' = NoCall
    /\ UNCHANGED <<dec, model, matching, gen, pc, count, enc>>

\* DecoderState.beam_update: the view needs beam_size to divide the batch axis
\* and idx to be a sentence of the view, or the call raises before it writes
BeamUpdateRaises(s, idx, beam_size) == \/ BatchOf(s) % beam_size # 0
                                       \/ idx >= BatchOf(s) \div beam_size

BeamUpdateState(s, idx, positions, beam_size) == [s EXCEPT !.hidden = [c \in 1..Len(s.hidden) |-> BeamUpdateTensor(s.hidden[c], idx, positions, beam_size)], !.input_feed = BeamUpdateTensor(s.input_feed, idx, positions, beam_size)]

\* the translator calls it with the width it replicated the state by
BeamUpdate(idx, positions) ==
    /\ pc = "idle"
    /\ beam > 0
    /\ Len(positions) = beam
    /\ state' = IF BeamUpdateRaises(state, idx, beam) THEN state ELSE BeamUpdateState(state, idx, positions, beam)
    /\ last' = [op |-> "beam_update", raised |-> BeamUpdateRaises(state, idx, beam)]
    /\ call' = NoCall
    /\ UNCHANGED <<dec, model, matching, gen, beam, pc, count, enc>>

\* ------------------------------------------------- the input-feeding decoder
\* batch sizes a caller may pass
BatchSizes == 1..MaxCols

\* what GlobalAttention returns for one batch element: non-negative weights
\* over the passage positions; the model lets it put all its mass on one
OneHot(p) == [s \in 1..CtxLen |-> IF s = p THEN 1 ELSE 0]

AttnVecs == {OneHot(p) : p \in 1..CtxLen}

Rotate(v, k) == [s \in 1..Len(v) |-> v[((s - 1 + k) % Len(v)) + 1]]

\* the weights of one call of self.attn, batch x src_len: the environment picks
\* w and batch element b gets w rotated by b-1 places, so that the columns
\* differ and every column meets every vector of AttnVecs
AttnWeights(w, batch) == [b \in 1..batch |-> Rotate(w, b - 1)]

\* the weights of one call of self.copy_attn, another attention module
CopyWeights(w, batch) == [b \in 1..batch |-> Rotate(w, b)]

\* self.embeddings(input).split(1)[t-1].squeeze(0) in call n: batch x 1
Emb(n, t, batch) == [b \in 1..batch |-> << <<"emb", n, t, b>> >>]

\* torch.cat([emb_t, output], 1)
RnnInput(emb_t, output) == [b \in 1..Len(emb_t) |-> emb_t[b] \o output[b]]

\* the hidden state self.rnn returns at position t of call n, shaped as the one
\* it was given
RnnHidden(n, t, hidden) == [c \in 1..Len(hidden) |-> [l \in 1..Len(hidden[c]) |-> [b \in 1..Len(hidden[c][l]) |-> [x \in 1..Len(hidden[c][l][b]) |-> <<"hid", n, t, c, l, b, x>>]]]]

\* output = self.dropout(...) at position t of call n (of the context gate's
\* result or of the attention output): batch x hidden_size
StepOutput(n, t, batch, hidden_size) == [b \in 1..batch |-> [x \in 1..hidden_size |-> <<"out", n, t, b, x>>]]

\* coverage + attn, with torch's broadcasting over the batch axis
BroadcastRows(m, batch) == IF Len(m) = batch THEN m ELSE [b \in 1..batch |-> m[1]]

AddRaises(m1, m2) == Len(m1) # Len(m2) /\ Len(m1) # 1 /\ Len(m2) # 1

Max2(a, b) == IF a >= b THEN a ELSE b

TensorAdd(m1, m2) == [b \in 1..Max2(Len(m1), Len(m2)) |-> [s \in 1..Len(m2[1]) |-> BroadcastRows(m1, Max2(Len(m1), Len(m2)))[b][s] + BroadcastRows(m2, Max2(Len(m1), Len(m2)))[b][s]]]

\* coverage = coverage + attn if coverage is not None else attn
CoverageAdd_Overwrite(coverage, attn) == attn

CoverageAdd(coverage, attn) == IF coverage # None THEN TensorAdd(coverage, attn) ELSE attn

\* attns = {"std": []}, plus "copy" and "coverage" as configured
NewAttns_NoCopy(d) == [k \in ({"std"} \cup (IF d.coverage THEN {"coverage"} ELSE {})) |-> <<>>]

NewAttns(d) == [k \in ({"std"} \cup (IF d.copy THEN {"copy"} ELSE {}) \cup (IF d.coverage THEN {"coverage"} ELSE {})) |-> <<>>]

\* the locals of _run_forward_pass before its loop
StartCall(d, s, n, tgt_len, batch) == [n |-> n, tgt_len |-> tgt_len, batch |-> batch, i |-> 0, output |-> s.input_feed[1], hidden |-> s.hidden, coverage |-> IF s.coverage # None THEN s.coverage[1] ELSE None, outputs |-> <<>>, attns |-> NewAttns(d), log |-> <<>>]

\* one iteration of the loop of _run_forward_pass, on the locals c
StepCall_StaleFeed(d, c, attn, copy_attn) ==
    LET t == c.i + 1
        emb_t == RnnInput(Emb(c.n, t, c.batch), c.output)
        output == StepOutput(c.n, t, c.batch, HiddenSize(d))
        coverage == IF d.coverage THEN CoverageAdd(c.coverage, attn) ELSE c.coverage
    IN  [c EXCEPT !.i = t,
                  !.hidden = RnnHidden(c.n, t, c.hidden),
                  !.coverage = coverage,
                  !.outputs = Append(@, output),
                  !.attns = [k \in DOMAIN c.attns |-> Append(c.attns[k], IF k = "std" THEN attn ELSE IF k = "coverage" THEN coverage ELSE copy_attn)],
                  !.log = Append(@, [pos |-> t, input |-> emb_t, hidden |-> c.hidden])]

StepCall(d, c, attn, copy_attn) ==
    LET t == c.i + 1
        emb_t == RnnInput(Emb(c.n, t, c.batch), c.output)
        output == StepOutput(c.n, t, c.batch, HiddenSize(d))
        coverage == IF d.coverage THEN CoverageAdd(c.coverage, attn) ELSE c.coverage
    IN  [c EXCEPT !.i = t,
                  !.output = output,
                  !.hidden = RnnHidden(c.n, t, c.hidden),
                  !.coverage = coverage,
                  !.outputs = Append(@, output),
                  !.attns = [k \in DOMAIN c.attns |-> Append(c.attns[k], IF k = "std" THEN attn ELSE IF k = "coverage" THEN coverage ELSE copy_attn)],
                  !.log = Append(@, [pos |-> t, input |-> emb_t, hidden |-> c.hidden])]

\* an update that stores the hidden state and the input feed and leaves the
\* coverage as it was
UpdateState_KeepsCoverage(s, hidden, final_output, coverage) == [hidden |-> hidden, input_feed |-> <<final_output>>, coverage |-> s.coverage]

\* RNNDecoderState.update_state, as RNNDecoderBase.forward calls it
UpdateState(s, hidden, final_output, coverage) == [hidden |-> hidden, input_feed |-> <<final_output>>, coverage |-> IF coverage # None THEN <<coverage>> ELSE None]

\* RNNDecoderBase.forward up to the loop: the two batch-size assertions
ForwardBegin(tgt_len, input_batch, contxt_batch) ==
    /\ pc = "idle"
    /\ dec.input_feed
    /\ count.positions + tgt_len <= MaxPositions
    /\ IF input_batch # contxt_batch \/ input_batch # BatchOf(state)
       THEN /\ last' = [op |-> "forward", raised |-> TRUE]
            /\ call' = NoCall
            /\ UNCHANGED <<pc, count>>
       ELSE /\ last' = [op |-> "forward", raised |-> FALSE]
            /\ call' = StartCall(dec, state, count.calls + 1, tgt_len, input_batch)
            /\ pc' = "loop"
            /\ count' = [calls |-> count.calls + 1, positions |-> count.positions + tgt_len]
    /\ UNCHANGED <<dec, model, matching, gen, state, beam, enc>>

\* one target position; adding attention to a coverage of another batch size
\* raises unless torch can broadcast it
ForwardStep(w) ==
    /\ pc = "loop"
    /\ call.i < call.tgt_len
    /\ IF dec.coverage /\ call.coverage # None /\ AddRaises(call.coverage, AttnWeights(w, call.batch))
       THEN /\ last' = [op |-> "forward", raised |-> TRUE]
            /\ pc' = "idle"
            /\ UNCHANGED call
       ELSE /\ call' = StepCall(dec, call, AttnWeights(w, call.batch), CopyWeights(w, call.batch))
            /\ UNCHANGED <<last, pc>>
    /\ UNCHANGED <<dec, model, matching, gen, state, beam, count, enc>>

\* after the loop: state.update_state(...) and the return
ForwardEnd ==
    /\ pc = "loop"
    /\ call.i = call.tgt_len
    /\ state' = UpdateState(state, call.hidden, call.outputs[Len(call.outputs)], call.coverage)
    /\ pc' = "idle"
    /\ UNCHANGED <<dec, model, matching, gen, beam, call, last, count, enc>>

\* ------------------------------------------------------ the standard decoder
\* StdRNNDecoder._run_forward_pass opens with "assert not self._copy" and
\* "assert not self._coverage"
StdAssertFails_CopyOnly(d) == d.copy

StdAssertFails(d) == d.copy \/ d.coverage

\* where a call of a StdRNNDecoder ends: at the batch-size assertion of
\* RNNDecoderBase.forward, at the assertions of _run_forward_pass, in self.rnn
\* (which refuses a hidden state of another batch size), or at the return
StdEndsAt(d, s, input_batch, contxt_batch) ==
    IF input_batch # contxt_batch THEN "aeq"
    ELSE IF StdAssertFails(d) THEN "assert"
    ELSE IF input_batch # BatchOf(s) THEN "rnn"
    ELSE "return"

\* attns["std"] = attn_scores, one call of self.attn on all positions, which
\* forward then stacks position by position
StdAttns(w, tgt_len, batch) == [k \in {"std"} |-> [t \in 1..tgt_len |-> AttnWeights(Rotate(w, t - 1), batch)]]

\* the locals of _run_forward_pass at its return
StdCall(d, s, n, tgt_len, batch, w) == [n |-> n, tgt_len |-> tgt_len, batch |-> batch, i |-> tgt_len, output |-> StepOutput(n, tgt_len, batch, HiddenSize(d)), hidden |-> RnnHidden(n, tgt_len, s.hidden), coverage |-> None, outputs |-> [t \in 1..tgt_len |-> StepOutput(n, t, batch, HiddenSize(d))], attns |-> StdAttns(w, tgt_len, batch), log |-> <<>>]

\* RNNDecoderBase.forward of a StdRNNDecoder: the whole call
StdForward(tgt_len, input_batch, contxt_batch, w) ==
    /\ pc = "idle"
    /\ ~dec.input_feed
    /\ count.positions + tgt_len <= MaxPositions
    /\ LET at == StdEndsAt(dec, state, input_batch, contxt_batch)
           c == StdCall(dec, state, count.calls + 1, tgt_len, input_batch, w)
       IN  IF at # "return"
           THEN /\ last' = [op |-> "forward", raised |-> TRUE, at |-> at]
                /\ call' = NoCall
                /\ UNCHANGED <<state, count>>
           ELSE /\ last' = [op |-> "forward", raised |-> FALSE, at |-> at]
                /\ call' = c
                /\ state' = UpdateState(state, c.hidden, c.outputs[Len(c.outputs)], c.coverage)
                /\ count' = [calls |-> count.calls + 1, positions |-> count.positions + tgt_len]
    /\ UNCHANGED <<dec, model, matching, gen, beam, pc, enc>>

\* a decoding session: decoder calls on a state, replicated or not
NextDec ==
    \/ \E batch \in 1..MaxBatch, is_tuple \in BOOLEAN : InitDecoderState(batch, is_tuple)
    \/ \E beam_size \in 1..MaxBeam : RepeatBeamSizeTimes(beam_size)
    \/ \E tgt_len \in 1..MaxPositions, input_batch \in BatchSizes, contxt_batch \in BatchSizes : ForwardBegin(tgt_len, input_batch, contxt_batch)
    \/ \E w \in AttnVecs : ForwardStep(w)
    \/ ForwardEnd
    \/ (pc = "idle" /\ ~dec.input_feed /\ \E tgt_len \in 1..MaxPositions, input_batch \in BatchSizes, contxt_batch \in BatchSizes, w \in AttnVecs : StdForward(tgt_len, input_batch, contxt_batch, w))

SpecDec == InitWith({d \in DecoderConfigs : d.bidirectional_encoder}) /\ [][NextDec]_vars

\* a beam search: the state is replicated, advanced one position at a time and
\* reordered sentence by sentence
NextBeam ==
    \/ \E batch \in 1..MaxBatch, is_tuple \in BOOLEAN : InitDecoderState(batch, is_tuple)
    \/ \E beam_size \in 1..MaxBeam : RepeatBeamSizeTimes(beam_size)
    \/ \E idx \in 0..(MaxBatch - 1) : \E positions \in [1..beam -> 0..(beam - 1)] : BeamUpdate(idx, positions)
    \/ ForwardBegin(1, BatchOf(state), BatchOf(state))
    \/ ForwardStep(OneHot(1))
    \/ ForwardEnd
    \/ Detach

SpecBeam == InitWith({d \in DecoderConfigs : ~d.copy /\ d.input_feed}) /\ [][NextBeam]_vars

\* ------------------------------------------------------------- the encoders
\* A passage batch is a tensor S x B x 2: feature 1 of a position is its word,
\* the last feature its answer indicator.  Words are pairwise distinct and
\* never <blank>, so that a moved position can be told from any other.
Word(s, b) == BlankIdx + (s - 1) * MaxEncBatch + b

\* the marked positions of a batch of B passages: the first passage carries
\* the pattern m1, passage b > 1 the pattern m2 rotated by b-2 places
Marks(m1, m2, B) == [b \in 1..B |-> IF b = 1 THEN m1 ELSE [s \in 1..MaxSrcLen |-> m2[((s - 1 + b - 2) % MaxSrcLen) + 1]]]

SrcInput(marks) == [s \in 1..MaxSrcLen |-> [b \in 1..Len(marks) |-> <<Word(s, b), IF marks[b][s] THEN AnsIndicator ELSE AnsIndicator - 1>>]]

\* t[:, i] (i from 1)
Column(t, i) == [s \in 1..Len(t) |-> t[s][i]]

\* input[:, :, -1]
LastFeature(input) == [s \in 1..Len(input) |-> [b \in 1..Len(input[s]) |-> input[s][b][Len(input[s][b])]]]

\* reverse: idx_reversed of one batch element of length l in a tensor of size0
\* positions, [l-1 .. 0] + [l .. size0-1]
RevIdx(l, size0) == [j \in 1..Max2(l, 0) |-> l - j] \o [k \in 1..Max2(size0 - l, 0) |-> l + k - 1]

\* reverse: assert len(idx_reversed) == seq_data.size(0)
ReverseRaises(seq_data, lengths) == \E i \in 1..Len(lengths) : Len(RevIdx(lengths[i], Len(seq_data))) # Len(seq_data)

\* reverse: the tensor it returns, column i reordered by its idx_reversed
Reverse_WholeTensor(seq_data, lengths) == [j \in 1..Len(seq_data) |-> [i \in 1..Len(lengths) |-> seq_data[Len(seq_data) - j + 1][i]]]

Reverse(seq_data, lengths) == [j \in 1..Len(seq_data) |-> [i \in 1..Len(lengths) |-> seq_data[RevIdx(lengths[i], Len(seq_data))[j] + 1][i]]]

\* reverse: its argument after the call; the routine indexes a clone
ReverseArg(seq_data_input) == seq_data_input

\* the positions of the first marked run only
Nonzero_FirstRun(is_ans_i) == SelectSeq([s \in 1..Len(is_ans_i) |-> s - 1], LAMBDA k : is_ans_i[k + 1] = AnsIndicator /\ (\A j \in 0..k : (\E h \in 0..j : is_ans_i[h + 1] = AnsIndicator) => (is_ans_i[j + 1] = AnsIndicator)))

\* is_ans[:, i].nonzero(): the positions (from 0) of column i that hold the
\* answer indicator, ascending
Nonzero(is_ans_i) == SelectSeq([s \in 1..Len(is_ans_i) |-> s - 1], LAMBDA k : is_ans_i[k + 1] = AnsIndicator)

\* get_ans_posi: 2 x B, row 1 the first marked position of each column, row 2
\* one past its last; indexing the empty nonzero() of a column raises
GetAnsPosi_Inclusive(is_ans_feature) == IF \E i \in 1..Len(is_ans_feature[1]) : Nonzero(Column(is_ans_feature, i)) = <<>> THEN [raised |-> TRUE, ans_posi |-> None] ELSE [raised |-> FALSE, ans_posi |-> [r \in 1..2 |-> [i \in 1..Len(is_ans_feature[1]) |-> Nonzero(Column(is_ans_feature, i))[IF r = 1 THEN 1 ELSE Len(Nonzero(Column(is_ans_feature, i)))]]]]

GetAnsPosi_EmptyInterval(is_ans_feature) == [raised |-> FALSE, ans_posi |-> [r \in 1..2 |-> [i \in 1..Len(is_ans_feature[1]) |-> IF Nonzero(Column(is_ans_feature, i)) = <<>> THEN 0 ELSE Nonzero(Column(is_ans_feature, i))[IF r = 1 THEN 1 ELSE Len(Nonzero(Column(is_ans_feature, i)))] + (IF r = 1 THEN 0 ELSE 1)]]]

GetAnsPosi(is_ans_feature) == IF \E i \in 1..Len(is_ans_feature[1]) : Nonzero(Column(is_ans_feature, i)) = <<>> THEN [raised |-> TRUE, ans_posi |-> None] ELSE [raised |-> FALSE, ans_posi |-> [r \in 1..2 |-> [i \in 1..Len(is_ans_feature[1]) |-> Nonzero(Column(is_ans_feature, i))[IF r = 1 THEN 1 ELSE Len(Nonzero(Column(is_ans_feature, i)))] + (IF r = 1 THEN 0 ELSE 1)]]]

\* pack_padded_sequence raises on a length below 1 and on lengths that are not
\* in decreasing order (and on a number of lengths that is not the batch size,
\* which the callers test next to it)
PackRaises(lengths) == \/ \E i \in 1..Len(lengths) : lengths[i] <= 0
                       \/ \E i \in 1..(Len(lengths) - 1) : lengths[i] < lengths[i + 1]

\* unpack(rnn(pack(emb, lengths)))[0]: lengths[0] x B x 1; the cell's output at
\* position t of column b, and zeros past the length of the column
RnnOutputs(tag, lengths) == [t \in 1..lengths[1] |-> [b \in 1..Len(lengths) |-> IF t <= lengths[b] THEN << <<tag, b, t>> >> ELSE <<Zero>>]]

Min2(a, b) == IF a <= b THEN a ELSE b

\* LuaBiRNNEncoder.forward: the locals when the call ends, and the place it
\* ended at.  The forward and the backward cell run on the packed embeddings of
\* the input and of the reversed input; the backward outputs are reversed back.
\* The answer summary indexes outputs_fw at end-1 and outputs_bw at start, and
\* the gate joins the 3-axis outputs with the 2-axis summary along axis 2,
\* which torch.cat refuses.
\* t[k] for a position k from 0, counted from the end when negative: the row
\* of t (from 1) it reads, and whether it is out of range
PyRow(k, rows) == IF k < 0 THEN k + rows + 1 ELSE k + 1

PyIndexRaises(k, rows) == k >= rows \/ k < 0 - rows

LuaAnsStateRaises(ans_posi, rows) == \E i \in 1..Len(ans_posi[1]) : PyIndexRaises(ans_posi[2][i] - 1, rows) \/ PyIndexRaises(ans_posi[1][i], rows)

LuaAnsState(outputs_fw, outputs_bw, ans_posi) == [i \in 1..Len(ans_posi[1]) |-> outputs_fw[PyRow(ans_posi[2][i] - 1, Len(outputs_fw))][i] \o outputs_bw[PyRow(ans_posi[1][i], Len(outputs_bw))][i]]

\* EncoderBase._check_args: aeq(n_batch, n_batch_), the batch size of the input
\* against the number of lengths; the lengths themselves are not looked at
CheckArgsRaises_Never(input, lengths) == FALSE

CheckArgsRaises(input, lengths) == Len(input[1]) # Len(lengths)

\* LuaBiRNNEncoder.forward: the call ends at _check_args, in reverse, in pack,
\* in get_ans_posi, at the answer summary, or at the gate
LuaCall(input, lengths) ==
    LET r0 == [kind |-> "lua", input |-> input, lengths |-> lengths, input_after |-> ReverseArg(input), input_reversed |-> None, outputs_fw |-> None, outputs_bw |-> None, ans_posi |-> None, ans_state |-> None, raised |-> TRUE, at |-> "reverse"]
        rc == [r0 EXCEPT !.input_after = input, !.at = "check_args"]
        r1 == [r0 EXCEPT !.input_reversed = Reverse(input, lengths), !.at = "pack"]
        r2 == [r1 EXCEPT !.outputs_fw = RnnOutputs("fw", lengths), !.outputs_bw = Reverse(RnnOutputs("bw", lengths), lengths), !.at = "get_ans_posi"]
        r3 == [r2 EXCEPT !.ans_posi = GetAnsPosi(LastFeature(r0.input_after)).ans_posi, !.at = "ans_state"]
        r4 == [r3 EXCEPT !.ans_state = LuaAnsState(r2.outputs_fw, r2.outputs_bw, r3.ans_posi), !.at = "gate"]
    IN  IF CheckArgsRaises(input, lengths) THEN rc
        ELSE IF ReverseRaises(input, lengths) THEN r0
        ELSE IF PackRaises(lengths) THEN r1
        ELSE IF GetAnsPosi(LastFeature(r0.input_after)).raised THEN r2
        ELSE IF LuaAnsStateRaises(r3.ans_posi, lengths[1]) THEN r3
        ELSE r4

\* PyBiRNNEncoder2.forward.  get_gates averages outputs[start:end] of each
\* column; the slice is cut at the rows the outputs have, and when nothing is
\* left the build either refuses the empty slice or averages it to NaN.
Py2AnsState_Inclusive(ans_posi, rows) == [i \in 1..Len(ans_posi[1]) |-> IF ans_posi[1][i] + 1 > Min2(ans_posi[2][i], rows) THEN <<"nan", i>> ELSE <<"mean", i, ans_posi[1][i] + 1, Min2(ans_posi[2][i] + 1, rows)>>]

Py2SliceEmpty(ans_posi, rows) == \E i \in 1..Len(ans_posi[1]) : ans_posi[1][i] + 1 > Min2(ans_posi[2][i], rows)

Py2AnsState(ans_posi, rows) == [i \in 1..Len(ans_posi[1]) |-> IF ans_posi[1][i] + 1 > Min2(ans_posi[2][i], rows) THEN <<"nan", i>> ELSE <<"mean", i, ans_posi[1][i] + 1, Min2(ans_posi[2][i], rows)>>]

Py2Call(input, lengths, empty_raises) ==
    LET r0 == [kind |-> "py2", input |-> input, lengths |-> lengths, outputs1 |-> None, ans_posi |-> None, ans_state |-> None, raised |-> TRUE, at |-> "pack"]
        r1 == [r0 EXCEPT !.outputs1 = RnnOutputs("out1", lengths), !.at = "get_ans_posi"]
        r2 == [r1 EXCEPT !.ans_posi = GetAnsPosi(LastFeature(input)).ans_posi, !.at = "get_gates"]
        r3 == [r2 EXCEPT !.ans_state = Py2AnsState(r2.ans_posi, lengths[1]), !.raised = FALSE, !.at = "return"]
    IN  IF CheckArgsRaises(input, lengths) THEN [r0 EXCEPT !.at = "check_args"]
        ELSE IF PackRaises(lengths) THEN r0
        ELSE IF GetAnsPosi(LastFeature(input)).raised THEN r1
        ELSE IF Py2SliceEmpty(r2.ans_posi, lengths[1]) /\ empty_raises THEN r2
        ELSE r3

\* --------------------------------------------------------- the plain encoders
\* a batch of B passages with the word as their only feature
WordInput(B) == [s \in 1..MaxSrcLen |-> [b \in 1..B |-> <<Word(s, b)>>]]

\* self.embeddings(input): S x B x 1, the vector of the word at each position
Embed(input) == [s \in 1..Len(input) |-> [b \in 1..Len(input[s]) |-> << <<"emb", input[s][b][1]>> >>]]

\* some length exceeds the padded size of the input
TooLong(input, lengths) == \E i \in 1..Len(lengths) : lengths[i] > Len(input)

\* pack_padded_sequence(x, lengths) for lengths in decreasing order within the
\* padded size: batch_sizes[t] columns are alive at position t, and data holds
\* the alive entries position by position
PackedBatchSizes(lengths) == [t \in 1..lengths[1] |-> Cardinality({i \in 1..Len(lengths) : lengths[i] >= t})]

RECURSIVE PackedData(_, _, _)
PackedData(x, batch_sizes, t) == IF t = 0 THEN <<>> ELSE PackedData(x, batch_sizes, t - 1) \o [i \in 1..batch_sizes[t] |-> x[t][i]]

Pack(x, lengths) == [data |-> PackedData(x, PackedBatchSizes(lengths), lengths[1]), batch_sizes |-> PackedBatchSizes(lengths)]

\* a recurrent layer on a packed sequence: one output per packed entry, in the
\* place of the entry it was made at
RnnPacked(tag, p) == [p EXCEPT !.data = [k \in 1..Len(p.data) |-> << <<tag, p.data[k][1]>> >>]]

\* the layer on a padded tensor (no_pack_padded_seq)
RnnPadded(tag, x) == [s \in 1..Len(x) |-> [b \in 1..Len(x[s]) |-> << <<tag, x[s][b][1]>> >>]]

\* pad_packed_sequence(p)[0]: position t starts after the entries of the
\* positions before it; a column that has ended is filled with zeros
RECURSIVE Offset(_, _)
Offset(batch_sizes, t) == IF t <= 1 THEN 0 ELSE Offset(batch_sizes, t - 1) + batch_sizes[t - 1]

Unpack_FirstStep(p) == [t \in 1..Len(p.batch_sizes) |-> [i \in 1..p.batch_sizes[1] |-> IF i <= p.batch_sizes[t] THEN p.data[i] ELSE <<Zero>>]]

Unpack(p) == [t \in 1..Len(p.batch_sizes) |-> [i \in 1..p.batch_sizes[1] |-> IF i <= p.batch_sizes[t] THEN p.data[Offset(p.batch_sizes, t) + i] ELSE <<Zero>>]]

\* what a build returns when it packs a length beyond the padded size without
\* refusing it: nothing the code relies on
Undefined == <<"undefined">>

\* MeanEncoder.forward: the lengths are only counted
MeanCall(input, lengths) ==
    LET r0 == [kind |-> "mean", input |-> input, lengths |-> lengths, emb |-> None, packed_emb |-> None, outputs |-> None, raised |-> TRUE, at |-> "check_args"]
        r1 == [r0 EXCEPT !.emb = Embed(input), !.outputs = Embed(input), !.raised = FALSE, !.at = "return"]
    IN  IF CheckArgsRaises(input, lengths) THEN r0 ELSE r1

\* RNNEncoder.forward; no_pack_padded_seq is set for an SRU cell.  The call
\* ends at _check_args, in pack, or at its return.
RnnEncCall(input, lengths, no_pack_padded_seq, over_raises) ==
    LET r0 == [kind |-> "rnn", no_pack_padded_seq |-> no_pack_padded_seq, input |-> input, lengths |-> lengths, emb |-> None, packed_emb |-> None, outputs |-> None, raised |-> TRUE, at |-> "check_args"]
        r1 == [r0 EXCEPT !.emb = Embed(input), !.at = "pack"]
        r2 == [r1 EXCEPT !.packed_emb = r1.emb, !.outputs = RnnPadded("rnn", r1.emb), !.raised = FALSE, !.at = "return"]
        r3 == [r1 EXCEPT !.packed_emb = Undefined, !.outputs = Undefined, !.raised = FALSE, !.at = "return"]
        r4 == [r1 EXCEPT !.packed_emb = Pack(r1.emb, lengths), !.outputs = Unpack(RnnPacked("rnn", Pack(r1.emb, lengths))), !.raised = FALSE, !.at = "return"]
    IN  IF CheckArgsRaises(input, lengths) THEN r0
        ELSE IF no_pack_padded_seq THEN r2
        ELSE IF PackRaises(lengths) \/ Len(lengths) # Len(input[1]) THEN r1
        ELSE IF TooLong(input, lengths) THEN (IF over_raises THEN r1 ELSE r3)
        ELSE r4

\* PyBiRNNEncoder.forward: two layers, each between a pack and an unpack
PyBiCall(input, lengths, over_raises) ==
    LET r0 == [kind |-> "pybi", no_pack_padded_seq |-> FALSE, input |-> input, lengths |-> lengths, emb |-> None, packed_emb |-> None, outputs1 |-> None, packed_input2 |-> None, outputs |-> None, raised |-> TRUE, at |-> "check_args"]
        r1 == [r0 EXCEPT !.emb = Embed(input), !.at = "pack"]
        r3 == [r1 EXCEPT !.packed_emb = Undefined, !.outputs1 = Undefined, !.packed_input2 = Undefined, !.outputs = Undefined, !.raised = FALSE, !.at = "return"]
        outputs1 == Unpack(RnnPacked("rnn1", Pack(r1.emb, lengths)))
        r4 == [r1 EXCEPT !.packed_emb = Pack(r1.emb, lengths), !.outputs1 = outputs1, !.packed_input2 = Pack(outputs1, lengths), !.outputs = Unpack(RnnPacked("rnn2", Pack(outputs1, lengths))), !.raised = FALSE, !.at = "return"]
    IN  IF CheckArgsRaises(input, lengths) THEN r0
        ELSE IF PackRaises(lengths) \/ Len(lengths) # Len(input[1]) THEN r1
        ELSE IF TooLong(input, lengths) THEN (IF over_raises THEN r1 ELSE r3)
        ELSE r4

MeanForward(B, lengths) ==
    /\ enc.kind = "none"
    /\ enc' = MeanCall(WordInput(B), lengths)
    /\ UNCHANGED <<dec, model, matching, gen, state, beam, pc, call, last, count>>

RnnForward(B, lengths, no_pack_padded_seq, over_raises) ==
    /\ enc.kind = "none"
    /\ enc' = RnnEncCall(WordInput(B), lengths, no_pack_padded_seq, over_raises)
    /\ UNCHANGED <<dec, model, matching, gen, state, beam, pc, call, last, count>>

PyBiForward(B, lengths, over_raises) ==
    /\ enc.kind = "none"
    /\ enc' = PyBiCall(WordInput(B), lengths, over_raises)
    /\ UNCHANGED <<dec, model, matching, gen, state, beam, pc, call, last, count>>

\* the lengths a caller may pass: any number of them, from 0 to one beyond the
\* padded size
LengthVectors == UNION {[1..n -> 0..(MaxSrcLen + 1)] : n \in 1..MaxEncBatch}

\* ------------------------------------------------ the answer-aware encoders
\* An answer batch is a tensor A x B x 1 of word indices.  Batch element b
\* carries the pattern m rotated by b-1 places: a word where it is TRUE,
\* <blank> where it is FALSE; words are pairwise distinct.
AnsInput(m, B) == [a \in 1..MaxAnsLen |-> [b \in 1..B |-> <<IF m[((a - 1 + b - 1) % MaxAnsLen) + 1] THEN BlankIdx + (a - 1) * MaxAnsBatch + b ELSE BlankIdx>>]]

\* the passages of a pair batch: all of the padded length but the last, which
\* is one position shorter when there is more than one
PairSrcLengths(B) == [b \in 1..B |-> IF b = B /\ B > 1 /\ MaxSrcLen > 1 THEN MaxSrcLen - 1 ELSE MaxSrcLen]

\* (input[:, :, 0] != 1).float().transpose(0, 1): B x len, 1 where a word is
NotBlankMask(input) == [b \in 1..Len(input[1]) |-> [a \in 1..Len(input) |-> IF input[a][b][1] # BlankIdx THEN 1 ELSE 0]]

\* a sort that puts the lengths in ascending order
SortPerms_Ascending(lengths) == {p \in [1..Len(lengths) -> 0..(Len(lengths) - 1)] : (\A j, k \in 1..Len(lengths) : (j # k) => (p[j] # p[k])) /\ (\A i \in 1..(Len(lengths) - 1) : lengths[p[i] + 1] <= lengths[p[i + 1] + 1])}

\* torch.sort(ans_lengths, descending=True)[1]: a permutation (from 0) that
\* puts the lengths in descending order; torch does not say which when
\* lengths tie, so it is any of them
SortPerms(lengths) == {p \in [1..Len(lengths) -> 0..(Len(lengths) - 1)] : (\A j, k \in 1..Len(lengths) : (j # k) => (p[j] # p[k])) /\ (\A i \in 1..(Len(lengths) - 1) : lengths[p[i] + 1] >= lengths[p[i + 1] + 1])}

\* torch.sort(idx_sort)[1]: where each batch index sits in idx_sort
Argsort_Same(idx) == idx

Argsort(idx) == [k \in 1..Len(idx) |-> (CHOOSE j \in 1..Len(idx) : idx[j] = k - 1) - 1]

\* what a recurrent layer sees of batch column b: its first len positions
Prefix(emb, b, len) == [a \in 1..len |-> emb[a][b]]

\* unpack(rnn(pack(emb, lengths)))[0] for a layer tag: lengths[0] x B x 1, the
\* output at position t of a column is made from the positions of the column
\* the layer sees; past the length of the column it is zero
RnnSeq(tag, emb, lengths) == [t \in 1..lengths[1] |-> [b \in 1..Len(lengths) |-> IF t <= lengths[b] THEN << <<tag, Prefix(emb, b, lengths[b]), t>> >> ELSE <<Zero>>]]

\* the final (h, c) of the layer: each directions x B x 1
RnnFinal(tag, emb, lengths) == [c \in 1..2 |-> [d \in 1..2 |-> [b \in 1..Len(lengths) |-> << <<tag, c, d, Prefix(emb, b, lengths[b])>> >>]]]

\* the answer encoding of PyBiRNNEncoder3 and MatchRNNEncoder: sort the
\* columns by length, run the layer, put the columns back
AnswerEncoding(ans_input, ans_lengths, idx_sort) ==
    LET idx_unsort == Argsort(idx_sort)
        sorted_ans_lengths == [j \in 1..Len(idx_sort) |-> ans_lengths[idx_sort[j] + 1]]
        ans_emb == IndexSelect1(ans_input, idx_sort)
    IN  [idx_sort |-> idx_sort, idx_unsort |-> idx_unsort, sorted_ans_lengths |-> sorted_ans_lengths, ans_emb |-> ans_emb,
         raised |-> PackRaises(sorted_ans_lengths),
         ans_outputs |-> IF PackRaises(sorted_ans_lengths) THEN None ELSE IndexSelect1(RnnSeq("ans", ans_emb, sorted_ans_lengths), idx_unsort),
         ans_hidden |-> IF PackRaises(sorted_ans_lengths) THEN None ELSE [c \in 1..2 |-> IndexSelect1(RnnFinal("ans", ans_emb, sorted_ans_lengths)[c], idx_unsort)]]

\* the match layer.  A score is the product of a passage output and an answer
\* output: zero where either is padding, elsewhere the environment's sc,
\* rotated so that positions and batch elements differ.
\* a score: a finite number v, or -inf
Fin(v) == [neginf |-> FALSE, v |-> v]

NegInf == [neginf |-> TRUE, v |-> 0]

Scores(sc, src_outputs1, ans_outputs) == [b \in 1..Len(src_outputs1[1]) |-> [s \in 1..Len(src_outputs1) |-> [a \in 1..Len(ans_outputs) |-> IF src_outputs1[s][b] = <<Zero>> \/ ans_outputs[a][b] = <<Zero>> THEN Fin(0) ELSE Fin(sc[((a - 1 + b + s) % MaxAnsLen) + 1])]]]

\* BF_ans_mask.unsqueeze(1).expand(scores.size()) raises unless the mask has
\* as many answer positions as the scores, or one
ExpandRaises(mask, scores) == Len(mask[1]) # Len(scores[1][1]) /\ Len(mask[1]) # 1

\* scores.data.masked_fill_((1 - Expand_BF_ans_mask).data.byte(), -inf)
MaskedFill_Keep(scores, mask) == scores

MaskedFill(scores, mask) == [b \in 1..Len(scores) |-> [s \in 1..Len(scores[b]) |-> [a \in 1..Len(scores[b][s]) |-> IF 1 - mask[b][IF Len(mask[b]) = 1 THEN 1 ELSE a] # 0 THEN NegInf ELSE scores[b][s][a]]]]

\* exp up to a common factor, with 2 for e; exp(-inf) is 0
ExpOf(x) == IF x.neginf THEN 0 ELSE 2 ^ x.v

RECURSIVE SumExp(_, _)
SumExp(row, n) == IF n = 0 THEN 0 ELSE ExpOf(row[n]) + SumExp(row, n - 1)

\* F.softmax(scores, dim=2): each weight as the fraction num / den; a row of
\* -inf only has den = 0, which is NaN
Softmax(scores) == [b \in 1..Len(scores) |-> [s \in 1..Len(scores[b]) |-> [a \in 1..Len(scores[b][s]) |-> [num |-> ExpOf(scores[b][s][a]), den |-> SumExp(scores[b][s], Len(scores[b][s]))]]]]

\* PyBiRNNEncoder3.forward on a source batch with the columns of ans_input:
\* _check_args on the source and on the answers comes first
Py3Call(src_lengths, ans_input, ans_lengths, idx_sort) ==
    LET r0 == [kind |-> "py3", src_lengths |-> src_lengths, ans_input |-> ans_input, ans_lengths |-> ans_lengths, idx_sort |-> None, idx_unsort |-> None, sorted_ans_lengths |-> None, ans_emb |-> None, ans_outputs |-> None, ans_hidden |-> None, hidden_t |-> None, raised |-> TRUE, at |-> "pack_src"]
        e == AnswerEncoding(ans_input, ans_lengths, idx_sort)
        r1 == [r0 EXCEPT !.idx_sort = e.idx_sort, !.idx_unsort = e.idx_unsort, !.sorted_ans_lengths = e.sorted_ans_lengths, !.ans_emb = e.ans_emb, !.at = "pack_ans"]
        r2 == [r1 EXCEPT !.ans_outputs = e.ans_outputs, !.ans_hidden = e.ans_hidden, !.hidden_t = [c \in 1..2 |-> e.ans_hidden[c] \o e.ans_hidden[c]], !.raised = FALSE, !.at = "return"]
    IN  IF CheckArgsRaises(ans_input, src_lengths) \/ CheckArgsRaises(ans_input, ans_lengths) THEN [r0 EXCEPT !.at = "check_args"]
        ELSE IF PackRaises(src_lengths) THEN r0
        ELSE IF e.raised THEN r1
        ELSE r2

\* MatchRNNEncoder.forward on a source batch with the columns of ans_input:
\* _check_args on the source and on the answers comes first
MatchCall(src_lengths, ans_input, ans_lengths, idx_sort, sc) ==
    LET r0 == [kind |-> "match", src_lengths |-> src_lengths, ans_input |-> ans_input, ans_lengths |-> ans_lengths, idx_sort |-> None, idx_unsort |-> None, sorted_ans_lengths |-> None, ans_emb |-> None, ans_outputs |-> None, ans_hidden |-> None, alpha |-> None, raised |-> TRUE, at |-> "pack_src"]
        e == AnswerEncoding(ans_input, ans_lengths, idx_sort)
        r1 == [r0 EXCEPT !.idx_sort = e.idx_sort, !.idx_unsort = e.idx_unsort, !.sorted_ans_lengths = e.sorted_ans_lengths, !.ans_emb = e.ans_emb, !.at = "pack_ans"]
        r2 == [r1 EXCEPT !.ans_outputs = e.ans_outputs, !.ans_hidden = e.ans_hidden, !.at = "expand"]
        scores == Scores(sc, RnnOutputs("src1", src_lengths), e.ans_outputs)
        r3 == [r2 EXCEPT !.alpha = Softmax(MaskedFill(scores, NotBlankMask(ans_input))), !.raised = FALSE, !.at = "return"]
    IN  IF CheckArgsRaises(ans_input, src_lengths) \/ CheckArgsRaises(ans_input, ans_lengths) THEN [r0 EXCEPT !.at = "check_args"]
        ELSE IF PackRaises(src_lengths) THEN r0
        ELSE IF e.raised THEN r1
        ELSE IF ExpandRaises(NotBlankMask(ans_input), scores) THEN r2
        ELSE r3

TokenPatterns == [1..MaxAnsLen -> BOOLEAN]

Py3Forward(B, src_lengths, m, ans_lengths, idx_sort) ==
    /\ enc.kind = "none"
    /\ enc' = Py3Call(src_lengths, AnsInput(m, B), ans_lengths, idx_sort)
    /\ UNCHANGED <<dec, model, matching, gen, state, beam, pc, call, last, count>>

MatchForward(B, src_lengths, m, ans_lengths, idx_sort, sc) ==
    /\ enc.kind = "none"
    /\ enc' = MatchCall(src_lengths, AnsInput(m, B), ans_lengths, idx_sort, sc)
    /\ UNCHANGED <<dec, model, matching, gen, state, beam, pc, call, last, count>>

MarkPatterns == [1..MaxSrcLen -> BOOLEAN]

\* one encoder call is followed per behaviour; the encoders keep nothing from
\* one call to the next
LuaForward(B, m1, m2, lengths) ==
    /\ enc.kind = "none"
    /\ enc' = LuaCall(SrcInput(Marks(m1, m2, B)), lengths)
    /\ UNCHANGED <<dec, model, matching, gen, state, beam, pc, call, last, count>>

Py2Forward(B, m1, m2, lengths, empty_raises) ==
    /\ enc.kind = "none"
    /\ enc' = Py2Call(SrcInput(Marks(m1, m2, B)), lengths, empty_raises)
    /\ UNCHANGED <<dec, model, matching, gen, state, beam, pc, call, last, count>>

NextEnc ==
    \/ (enc.kind = "none" /\ \E B \in 1..MaxEncBatch : \E m1 \in MarkPatterns, m2 \in MarkPatterns, lengths \in [1..B -> 0..(MaxSrcLen + 1)] \cup {[i \in 1..n |-> MaxSrcLen] : n \in (1..MaxEncBatch) \ {B}} : LuaForward(B, m1, m2, lengths))
    \/ (enc.kind = "none" /\ \E B \in 1..MaxEncBatch : \E m1 \in MarkPatterns, m2 \in MarkPatterns, lengths \in [1..B -> 0..MaxSrcLen] \cup {[i \in 1..n |-> MaxSrcLen] : n \in (1..MaxEncBatch) \ {B}}, empty_raises \in BOOLEAN : Py2Forward(B, m1, m2, lengths, empty_raises))
    \/ (enc.kind = "none" /\ \E B \in 1..MaxAnsBatch, n \in 1..MaxAnsBatch : \E m \in TokenPatterns, ans_lengths \in (IF n = B THEN [1..B -> 0..MaxAnsLen] \cup {[i \in 1..k |-> MaxAnsLen] : k \in (1..MaxAnsBatch) \ {B}} ELSE {[i \in 1..B |-> MaxAnsLen]}) : \E idx_sort \in SortPerms(ans_lengths) : Py3Forward(B, PairSrcLengths(n), m, ans_lengths, idx_sort))
    \/ (enc.kind = "none" /\ \E B \in 1..MaxAnsBatch, n \in 1..MaxAnsBatch : \E m \in TokenPatterns, ans_lengths \in (IF n = B THEN [1..B -> 0..MaxAnsLen] \cup {[i \in 1..k |-> MaxAnsLen] : k \in (1..MaxAnsBatch) \ {B}} ELSE {[i \in 1..B |-> MaxAnsLen]}), sc \in [1..MaxAnsLen -> 0..1] : \E idx_sort \in SortPerms(ans_lengths) : MatchForward(B, PairSrcLengths(n), m, ans_lengths, idx_sort, sc))
    \/ (enc.kind = "none" /\ \E B \in 1..MaxEncBatch, lengths \in LengthVectors : MeanForward(B, lengths))
    \/ (enc.kind = "none" /\ \E B \in 1..MaxEncBatch, lengths \in LengthVectors, no_pack_padded_seq \in BOOLEAN, over_raises \in BOOLEAN : RnnForward(B, lengths, no_pack_padded_seq, over_raises))
    \/ (enc.kind = "none" /\ \E B \in 1..MaxEncBatch, lengths \in LengthVectors, over_raises \in BOOLEAN : PyBiForward(B, lengths, over_raises))

SpecEnc == InitWith({[bidirectional_encoder |-> TRUE, num_layers |-> NumLayers, coverage |-> FALSE, copy |-> FALSE, input_feed |-> TRUE]}) /\ [][NextEnc]_vars

\* ------------------------------------------------------ the translation models
\* NMTModel and SelEncNMTModel, built with or without multigpu
ModelConfigs == [kind : {"nmt", "selenc"}, multigpu : BOOLEAN]

\* the answers a SelEncNMTModel is called with here: the first two of the
\* padded length, which torch.sort may return in either order, and each
\* further one a word shorter than the one before
ModelAnsLengths(B) == [b \in 1..B |-> IF b <= 2 THEN MaxAnsLen ELSE Max2(1, MaxAnsLen - (b - 2))]

\* the orders torch.sort may give the answers of a model's encoder call; an
\* NMTModel has no answers to sort
ModelSortPerms(m, B) == IF m.kind = "selenc" THEN SortPerms(ModelAnsLengths(B)) ELSE {None}

\* self.encoder(src, lengths) of an NMTModel with an RNNEncoder, and
\* self.encoder((src, ans), (src_lengths, ans_lengths)) of a SelEncNMTModel
\* with a PyBiRNNEncoder3, whose sort of the answer lengths returns idx_sort
ModelEncoderCall(m, B, lengths, idx_sort) ==
    IF m.kind = "nmt" THEN RnnEncCall(WordInput(B), lengths, FALSE, FALSE)
    ELSE Py3Call(lengths, AnsInput([a \in 1..MaxAnsLen |-> TRUE], B), ModelAnsLengths(B), idx_sort)

\* enc_hidden, the first result of the encoder call e: the final (h, c) of an
\* RNNEncoder, and hidden_t of a PyBiRNNEncoder3, which is made of the final
\* state of the answer layer
ModelEncHidden(m, d, B, e) == IF m.kind = "selenc" THEN e.hidden_t ELSE <<EncFinal(1, d, B), EncFinal(2, d, B)>>

\* self.decoder.init_decoder_state(src, context, enc_hidden)
InitState(d, batch, is_tuple) ==
    LET enc_hidden == IF is_tuple THEN <<EncFinal(1, d, batch), EncFinal(2, d, batch)>> ELSE EncFinal(1, d, batch)
        rnnstate == IF is_tuple THEN [c \in 1..Len(enc_hidden) |-> FixEncHidden(d, enc_hidden[c])] ELSE FixEncHidden(d, enc_hidden)
    IN  NewState(batch, HiddenSize(d), rnnstate, is_tuple)

\* the loop of InputFeedRNNDecoder._run_forward_pass over k positions
RECURSIVE RunSteps(_, _, _, _)
RunSteps(d, c, w, k) == IF k = 0 THEN c ELSE StepCall(d, RunSteps(d, c, w, k - 1), AttnWeights(Rotate(w, k - 1), c.batch), CopyWeights(Rotate(w, k - 1), c.batch))

\* where a decoder call ends: at the batch-size assertion of forward, at the
\* one of the input-feeding pass (against the stored input feed), at an
\* addition to a coverage of another batch size, or at the return
DecoderEndsAt(d, s, input_batch, contxt_batch, w) ==
    IF ~d.input_feed THEN StdEndsAt(d, s, input_batch, contxt_batch)
    ELSE IF input_batch # contxt_batch THEN "aeq"
    ELSE IF input_batch # BatchOf(s) THEN "aeq_feed"
    ELSE IF d.coverage /\ s.coverage # None /\ AddRaises(s.coverage[1], AttnWeights(w, input_batch)) THEN "coverage"
    ELSE "return"

\* the locals of the decoder's forward pass at its return
DecoderCall(d, s, n, tgt_len, batch, w) == IF d.input_feed THEN RunSteps(d, StartCall(d, s, n, tgt_len, batch), w, tgt_len) ELSE StdCall(d, s, n, tgt_len, batch, w)

\* "if self.multigpu: dec_state = None; attns = None" and the return
ModelReturn_KeepsAll(multigpu, out, attns, dec_state) == <<out, attns, dec_state>>

ModelReturn(multigpu, out, attns, dec_state) == <<out, IF multigpu THEN None ELSE attns, IF multigpu THEN None ELSE dec_state>>

\* NMTModel.forward and SelEncNMTModel.forward: tgt has tgt_rows rows of
\* tgt_batch columns, src has B columns; given tells whether the caller passes
\* the decoder state it holds.  The encoder is an LSTM, which returns (h, c).
ModelForward(B, lengths, tgt_rows, tgt_batch, given, w) ==
    /\ model.kind # "none"
    /\ given => (state # NoState)
    /\ count.positions + tgt_rows - 1 <= MaxPositions
    /\ \E idx_sort \in ModelSortPerms(model, B) : enc' = ModelEncoderCall(model, B, lengths, idx_sort)
    /\ LET enc_hidden == ModelEncHidden(model, dec, B, enc')
           enc_state == NewState(B, HiddenSize(dec), [c \in 1..Len(enc_hidden) |-> FixEncHidden(dec, enc_hidden[c])], TRUE)
           s0 == IF given THEN state ELSE enc_state
           at == IF enc'.raised THEN enc'.at ELSE DecoderEndsAt(dec, s0, tgt_batch, B, w)
           args == [src_batch |-> B, n_lengths |-> Len(lengths), tgt_batch |-> tgt_batch, given |-> given]
       IN  IF at # "return"
              THEN /\ last' = [op |-> "model_forward", raised |-> TRUE, at |-> at, args |-> args]
                   /\ call' = NoCall
                   /\ UNCHANGED <<state, count>>
              ELSE /\ call' = DecoderCall(dec, s0, count.calls + 1, tgt_rows - 1, tgt_batch, w)
                   /\ state' = UpdateState(s0, call'.hidden, call'.outputs[Len(call'.outputs)], call'.coverage)
                   /\ last' = [op |-> "model_forward", raised |-> FALSE, at |-> at, args |-> args, ret |-> ModelReturn(model.multigpu, call'.outputs, call'.attns, state')]
                   /\ count' = [calls |-> count.calls + 1, positions |-> count.positions + tgt_rows - 1]
    /\ UNCHANGED <<dec, model, matching, gen, beam, pc>>

\* a batch size other than B, for the arguments that disagree with the source
OtherBatch(B) == (B % MaxBatch) + 1

\* the lengths a training batch comes with here: n full passages
FullLengths(n) == [i \in 1..n |-> MaxSrcLen]

\* training: forward calls of one model, each on the state the caller holds or
\* on none; the lengths and the target have the batch size of the source or
\* another one
NextModel ==
    \/ (model.kind # "none" /\ \E B \in 1..MaxBatch, tgt_rows \in 2..(MaxPositions + 1), given \in BOOLEAN : \E n \in {B, OtherBatch(B)}, tgt_batch \in {B, OtherBatch(B)} : ModelForward(B, FullLengths(n), tgt_rows, tgt_batch, given, OneHot(1)))

InitModel ==
    /\ model \in ModelConfigs
    /\ dec \in {[d EXCEPT !.num_layers = IF model.kind = "selenc" THEN Py3Layers ELSE @] : d \in {x \in DecoderConfigs : x.bidirectional_encoder}}
    /\ state = NoState
    /\ beam = 0
    /\ pc = "new"
    /\ call = NoCall
    /\ last = [op |-> "construct", raised |-> FALSE]
    /\ count = [calls |-> 0, positions |-> 0]
    /\ enc = NoEnc
    /\ matching = NoMatching
    /\ gen = NoGen

SpecModel == InitModel /\ [][NextModel]_vars

\* ----------------------------------------------- matching pretrained vectors
\* A surface form is a stem in a letter case: all lower ("l"), all upper ("u")
\* or mixed ("m"); str.lower and str.upper change the case and keep the stem.
Form(stem, case) == [stem |-> stem, case |-> case]

Lower(w) == [w EXCEPT !.case = "l"]

Upper(w) == [w EXCEPT !.case = "u"]

\* a field of a line: the text of a number, or something float() refuses
Num(v) == [num |-> TRUE, v |-> v]

NotNum == [num |-> FALSE, v |-> 0]

\* [float(em) for em in line_split[1:]] raises on a field that is no number
FloatRaises(fields) == \E j \in 1..Len(fields) : ~fields[j].num

\* the parsed fields as a row of the float32 table
Floats(fields) == [j \in 1..Len(fields) |-> <<"f32", fields[j].v>>]

\* row i (from 1) of np.random.uniform(..., size=(len(vocab), dim))
RandomRow(i) == [j \in 1..emb_dim |-> <<"rand", i, j>>]

\* w in vocab.stoi, and vocab.stoi[w] (from 0); a vocabulary is the sequence
\* of its surface forms by index
InVocab(vocab, w) == \E i \in 1..Len(vocab) : vocab[i] = w

Stoi(vocab, w) == (CHOOSE i \in 1..Len(vocab) : vocab[i] = w) - 1

\* the branch of the loop body a surface form takes
MatchTier(vocab, w) ==
    IF InVocab(vocab, w) THEN "exact"
    ELSE IF InVocab(vocab, Lower(w)) THEN "lower"
    ELSE IF InVocab(vocab, Upper(w)) THEN "upper"
    ELSE "none"

\* w_id of that branch, from 1
MatchId(vocab, w) ==
    IF InVocab(vocab, w) THEN Stoi(vocab, w) + 1
    ELSE IF InVocab(vocab, Lower(w)) THEN Stoi(vocab, Lower(w)) + 1
    ELSE Stoi(vocab, Upper(w)) + 1

\* a loop body whose case-folded branches do not test done_flag
TierWrites_Always(tier, done) == tier # "none"

\* whether the branch writes the row: the exact branch always does, the other
\* two only while done_flag[w_id] is 0
TierWrites(tier, done) == tier = "exact" \/ (tier \in {"lower", "upper"} /\ done = 0)

RECURSIVE SumFlags(_, _)
SumFlags(done_flag, n) == IF n = 0 THEN 0 ELSE done_flag[n] + SumFlags(done_flag, n - 1)

\* match_embeddings before its loop
StartMatching(vocab) == [kind |-> "match_embeddings", vocab |-> vocab, lines |-> <<>>, filtered_embeddings |-> [i \in 1..Len(vocab) |-> RandomRow(i)], done_flag |-> [i \in 1..Len(vocab) |-> 0], vec |-> None, vec_bound |-> FALSE, warned |-> <<>>, count |-> [match |-> 0, miss |-> 0], at |-> "loop"]

\* one iteration of the loop, on the locals m.  A line that does not parse
\* goes to the handler, whose message reads len(vec): vec is the list of the
\* last line that parsed, and unbound when none has.
LineStep(m, line) ==
    LET m1 == [m EXCEPT !.lines = Append(@, line)]
        n == Len(m1.lines)
        tier == MatchTier(m.vocab, line.w)
        w_id == MatchId(m.vocab, line.w)
    IN  IF FloatRaises(line.fields)
        THEN (IF m.vec_bound THEN [m1 EXCEPT !.warned = Append(@, n)] ELSE [m1 EXCEPT !.at = "raised"])
        ELSE IF Len(line.fields) # emb_dim
        THEN [m1 EXCEPT !.vec = Floats(line.fields), !.vec_bound = TRUE, !.warned = Append(@, n)]
        ELSE IF TierWrites(tier, IF tier = "none" THEN 0 ELSE m.done_flag[w_id])
        THEN [m1 EXCEPT !.vec = Floats(line.fields), !.vec_bound = TRUE, !.filtered_embeddings[w_id] = Floats(line.fields), !.done_flag[w_id] = 1]
        ELSE [m1 EXCEPT !.vec = Floats(line.fields), !.vec_bound = TRUE]

\* counts taken per matching line of the file and not per vocabulary entry
Counts_PerLine(m) ==
    LET hits == Cardinality({k \in 1..Len(m.lines) : /\ ~FloatRaises(m.lines[k].fields)
                                                     /\ Len(m.lines[k].fields) = emb_dim
                                                     /\ MatchTier(m.vocab, m.lines[k].w) # "none"})
    IN  [match |-> hits, miss |-> Len(m.vocab) - hits]

\* after the loop: the counts, and the return
Counts(m) == [match |-> SumFlags(m.done_flag, Len(m.done_flag)), miss |-> Len(m.vocab) - SumFlags(m.done_flag, Len(m.done_flag))]

\* the next line of the file is read and handled
ReadLine(line) ==
    /\ matching.kind = "match_embeddings"
    /\ matching.at = "loop"
    /\ Len(matching.lines) < MaxLines
    /\ matching' = LineStep(matching, line)
    /\ UNCHANGED <<dec, model, gen, state, beam, pc, call, last, count, enc>>

\* the file has no further line
EndOfFile ==
    /\ matching.kind = "match_embeddings"
    /\ matching.at = "loop"
    /\ matching' = [matching EXCEPT !.count = Counts(matching), !.at = "return"]
    /\ UNCHANGED <<dec, model, gen, state, beam, pc, call, last, count, enc>>

\* the k-th well-formed vector: emb_dim numbers no other vector has
Vec(k) == [j \in 1..emb_dim |-> Num(emb_dim * (k - 1) + j)]

\* the vocabularies: {"Apple": 0, "table": 1, "UNK": 2}, {"Apple": 0,
\* "apple": 1} and {"APPLE": 0, "table": 1}
Vocabs == { <<Form("apple", "m"), Form("table", "l"), Form("unk", "u")>>,
            <<Form("apple", "m"), Form("apple", "l")>>,
            <<Form("apple", "u"), Form("table", "l")>> }

\* the lines a file is made of: "apple", "APPLE", "Apple" or "TABLE" with one
\* of two vectors, a line with a field too few and a line with a field that
\* is no number
Lines == {[w |-> Form(st[1], st[2]), fields |-> Vec(k)] : st \in {<<"apple", "l">>, <<"apple", "u">>, <<"apple", "m">>, <<"table", "u">>}, k \in 1..2}
         \cup {[w |-> Form("apple", "l"), fields |-> SubSeq(Vec(1), 1, emb_dim - 1)],
               [w |-> Form("apple", "l"), fields |-> [Vec(1) EXCEPT ![1] = NotNum]]}

NextEmb ==
    \/ (matching.kind = "match_embeddings" /\ matching.at = "loop" /\ \E line \in Lines : ReadLine(line))
    \/ EndOfFile

InitEmb ==
    /\ dec \in {[bidirectional_encoder |-> TRUE, num_layers |-> NumLayers, coverage |-> FALSE, copy |-> FALSE, input_feed |-> TRUE]}
    /\ model = NoModel
    /\ state = NoState
    /\ beam = 0
    /\ pc = "new"
    /\ call = NoCall
    /\ last = [op |-> "construct", raised |-> FALSE]
    /\ count = [calls |-> 0, positions |-> 0]
    /\ enc = NoEnc
    /\ matching \in {StartMatching(vocab) : vocab \in Vocabs}
    /\ gen = NoGen

SpecEmb == InitEmb /\ [][NextEmb]_vars

\* --------------------------------------------- attention over a padded context
\* onmt.modules.GlobalAttention on scores of size batch x queries x src_len:
\* with context_lengths the scores of the positions from a batch element's
\* length on are set to -inf before the softmax, without it none is
GlobalAttention(scores, context_lengths) ==
    IF context_lengths = None THEN Softmax(scores)
    ELSE Softmax(MaskedFill(scores, [b \in 1..Len(scores) |-> [a \in 1..Len(scores[b][1]) |-> IF a <= context_lengths[b] THEN 1 ELSE 0]]))

\* the scores an attention module computes for queries t0..t0+n-1: finite
\* numbers the environment picks with sc, other ones for each batch element,
\* position and module m (0 for self.attn, 1 for self.copy_attn)
AttnScores(sc, m, t0, n, batch) == [b \in 1..batch |-> [q \in 1..n |-> [a \in 1..CtxLen |-> Fin(sc[((a - 1 + b + (t0 + q - 1) + m) % CtxLen) + 1])]]]

\* the calls of attention modules a decoder call makes, in order, each with the
\* context_lengths it passes and the distribution it gets: the input-feeding
\* decoder calls self.attn at every position and then, with copy attention,
\* self.copy_attn; the standard decoder calls self.attn once on all positions
AttnCallsOf(d, tgt_len, batch, context_lengths, sc) ==
    IF d.input_feed
    THEN [i \in 1..(tgt_len * (IF d.copy THEN 2 ELSE 1)) |->
            LET per == IF d.copy THEN 2 ELSE 1
                t == ((i - 1) \div per) + 1
            IN  IF (i - 1) % per = 1
                THEN [module |-> "copy_attn", pos |-> t, context_lengths |-> None, dist |-> GlobalAttention(AttnScores(sc, 1, t, 1, batch), None)]
                ELSE [module |-> "attn", pos |-> t, context_lengths |-> context_lengths, dist |-> GlobalAttention(AttnScores(sc, 0, t, 1, batch), context_lengths)]]
    ELSE << [module |-> "attn", pos |-> 1, context_lengths |-> context_lengths, dist |-> GlobalAttention(AttnScores(sc, 0, 1, tgt_len, batch), context_lengths)] >>

\* the sum of two weights that are fractions, in lowest terms
FracAdd(p, q) ==
    LET num == p.num * q.den + q.num * p.den
        den == p.den * q.den
        RECURSIVE Gcd(_, _)
        Gcd(x, y) == IF y = 0 THEN x ELSE Gcd(y, x % y)
        g == Gcd(num, den)
    IN  IF g = 0 THEN [num |-> num, den |-> den] ELSE [num |-> num \div g, den |-> den \div g]

\* coverage after position t of a call that began without one: attn of
\* position 1, and coverage + attn from then on
RECURSIVE CoverageAfter(_, _)
CoverageAfter(std, t) == IF t = 1 THEN std[1] ELSE [b \in 1..Len(std[t]) |-> [a \in 1..Len(std[t][b]) |-> FracAdd(CoverageAfter(std, t - 1)[b][a], std[t][b][a])]]

\* RNNDecoderBase.forward(input, context, state, context_lengths) on the state
\* init_decoder_state makes of the encoder's result: the whole call, with the
\* attention distributions in the map it returns, the running sum of the
\* standard ones under "coverage", and the last sum in the state
ForwardWithLengths(tgt_len, batch, context_lengths, sc) ==
    /\ pc = "new"
    /\ ~StdAssertFails(dec) \/ dec.input_feed
    /\ LET s0 == InitState(dec, batch, TRUE)
           c == DecoderCall(dec, s0, 1, tgt_len, batch, OneHot(1))
           calls == AttnCallsOf(dec, tgt_len, batch, context_lengths, sc)
           per == IF dec.copy THEN 2 ELSE 1
           dist(k, t) == [b \in 1..batch |-> IF dec.input_feed THEN calls[per * (t - 1) + (IF k = "copy" THEN 2 ELSE 1)].dist[b][1] ELSE calls[1].dist[b][t]]
           std == [t \in 1..tgt_len |-> dist("std", t)]
           attns == [k \in DOMAIN c.attns |-> [t \in 1..tgt_len |-> IF k = "coverage" THEN CoverageAfter(std, t) ELSE dist(k, t)]]
           coverage == IF c.coverage # None THEN CoverageAfter(std, tgt_len) ELSE None
       IN  /\ call' = [c EXCEPT !.attns = attns, !.coverage = coverage]
           /\ state' = UpdateState(s0, c.hidden, c.outputs[Len(c.outputs)], coverage)
           /\ last' = [op |-> "forward", raised |-> FALSE, context_lengths |-> context_lengths, attn_calls |-> calls]
           /\ count' = [calls |-> 1, positions |-> tgt_len]
           /\ pc' = "idle"
    /\ UNCHANGED <<dec, model, matching, gen, beam, enc>>

\* one decoder call per behaviour
NextAttn ==
    \/ (pc = "new" /\ \E tgt_len \in 1..MaxPositions, batch \in 1..MaxBatch, sc \in [1..CtxLen -> 0..1] :
          \E context_lengths \in {None} \cup [1..batch -> 1..CtxLen] : ForwardWithLengths(tgt_len, batch, context_lengths, sc))

\* an input-feeding decoder with or without copy attention and coverage, a
\* standard one without them
SpecAttn == InitWith({d \in DecoderConfigs : d.input_feed \/ ~StdAssertFails(d)}) /\ [][NextAttn]_vars

\* ------------------------------------------- writing the data files of a split
\* A token is a sequence of characters; " " stands for a whitespace character
\* inside a token (a no-break space), "\n" ends a line of a file.
the == <<"t">>

cat == <<"c">>

new_york == <<"n", " ", "y">>

\* the list read from opt.stop_words_file
stop_words == {the}

\* ''.join(word.split())
StripSpace(word) == SelectSeq(word, LAMBDA c : c # " ")

\* flat_context: the sentences of the paragraph, one after the other
RECURSIVE Flatten(_)
Flatten(context) == IF context = <<>> THEN <<>> ELSE Head(context) \o Flatten(Tail(context))

\* sum(context_lens[:n])
RECURSIVE SumLens(_, _)
SumLens(context, n) == IF n = 0 THEN 0 ELSE Len(context[n]) + SumLens(context, n - 1)

\* seq[i] of Python for i from -len(seq) to len(seq) - 1
PyAt(seq, i) == IF i >= 0 THEN seq[i + 1] ELSE seq[Len(seq) + i + 1]

\* an overlap test that does not look at the stop words
check_src_tgt_AnyOverlap(src, tgt, stopwords) ==
    \E i \in 1..Len(src) : \E j \in 1..Len(tgt) : src[i] = tgt[j]

\* check_src_tgt: some word of both src and tgt is no stop word
check_src_tgt(src, tgt, stopwords) ==
    \E i \in 1..Len(src) : \E j \in 1..Len(tgt) : src[i] = tgt[j] /\ src[i] \notin stopwords

\* ans_span = ans_spans[0] is [[start sentence, start word], [end sentence,
\* end word]], from 0, the end word exclusive
ans_sents_start(ex) == SumLens(ex.context, ex.ans_span[1][1])

ans_sents_end(ex) == SumLens(ex.context, ex.ans_span[2][1] + 1)

\* flat_context[ans_sents_start:ans_sents_end]
flat_sents(ex) == SubSeq(Flatten(ex.context), ans_sents_start(ex) + 1, ans_sents_end(ex))

\* the example is left out: only asked for the train split
Filtered(data_type, ex) == data_type = "train" /\ ~check_src_tgt(flat_sents(ex), ex.q, stop_words)

flat_ans_span(ex) == <<SumLens(ex.context, ex.ans_span[1][1]) + ex.ans_span[1][2],
                       SumLens(ex.context, ex.ans_span[2][1]) + ex.ans_span[2][2]>>

\* one of the four assert statements after the filter fails
AssertFails(ex) ==
    \/ PyAt(PyAt(ex.context, ex.ans_span[1][1]), ex.ans_span[1][2]) # PyAt(Flatten(ex.context), flat_ans_span(ex)[1])
    \/ PyAt(PyAt(ex.context, ex.ans_span[2][1]), ex.ans_span[2][2] - 1) # PyAt(Flatten(ex.context), flat_ans_span(ex)[2] - 1)
    \/ Len(Flatten(ex.context)) # Len(Flatten(ex.ner))
    \/ Len(Flatten(ex.context)) # Len(Flatten(ex.pos))

\* feature_rich_flat_parag; "|" stands for the feature separator
feature_rich_flat_parag(ex, rich_feature) ==
    [i \in 1..Len(Flatten(ex.context)) |->
        LET word_i == StripSpace(Flatten(ex.context)[i])
            is_ans == IF i - 1 >= flat_ans_span(ex)[1] /\ i - 1 < flat_ans_span(ex)[2] THEN "I" ELSE "O"
        IN  IF rich_feature
            THEN word_i \o <<"|">> \o Flatten(ex.ner)[i] \o <<"|">> \o Flatten(ex.pos)[i] \o <<"|", is_ans>>
            ELSE word_i]

\* ' '.join(words)
RECURSIVE Join(_)
Join(words) ==
    IF words = <<>> THEN <<>>
    ELSE IF Len(words) = 1 THEN words[1]
    ELSE words[1] \o <<" ">> \o Join(Tail(words))

\* str(tmp) of a number, as one piece of text
Str(n) == <<ToString(n)>>

\* the five lines written for an example
OutLines(ex, rich_feature) ==
    [para_src |-> Join(feature_rich_flat_parag(ex, rich_feature)) \o <<"\n">>,
     para_posi |-> Join(<<Str(flat_ans_span(ex)[1]), Str(flat_ans_span(ex)[2])>>) \o <<"\n">>,
     sents_src |-> Join(SubSeq(feature_rich_flat_parag(ex, rich_feature), ans_sents_start(ex) + 1, ans_sents_end(ex))) \o <<"\n">>,
     sents_posi |-> Join(<<Str(flat_ans_span(ex)[1] - ans_sents_start(ex)), Str(flat_ans_span(ex)[2] - ans_sents_start(ex))>>) \o <<"\n">>,
     tgt |-> Join(ex.q) \o <<"\n">>]

\* file.write(line) on each of the five files
WriteAll(files, lines) ==
    [para_src |-> files.para_src \o lines.para_src,
     para_posi |-> files.para_posi \o lines.para_posi,
     sents_src |-> files.sents_src \o lines.sents_src,
     sents_posi |-> files.sents_posi \o lines.sents_posi,
     tgt |-> files.tgt \o lines.tgt]

\* PtStyleDataGenerator(opt, data_type) before its loop: the assertion that
\* data_type is 'train', 'dev' or 'test' fails before a file is read or
\* opened; past it the five files are open and empty
StartGenerator(data_type, rich_feature) ==
    IF data_type \notin {"train", "dev", "test"}
    THEN [kind |-> "pt_style", data_type |-> data_type, rich_feature |-> rich_feature,
          examples |-> <<>>, filted_cnt |-> 0, files |-> None, at |-> "raised", report |-> None]
    ELSE [kind |-> "pt_style", data_type |-> data_type, rich_feature |-> rich_feature,
          examples |-> <<>>, filted_cnt |-> 0,
          files |-> [para_src |-> <<>>, para_posi |-> <<>>, sents_src |-> <<>>, sents_posi |-> <<>>, tgt |-> <<>>],
          at |-> "loop", report |-> None]

\* a loop body that writes the paragraph span before the assertions
ExampleStep_WritesEarly(g, ex) ==
    LET g1 == [g EXCEPT !.examples = Append(@, ex)]
        lines == OutLines(ex, g.rich_feature)
    IN  IF Filtered(g.data_type, ex)
        THEN [g1 EXCEPT !.filted_cnt = @ + 1]
        ELSE IF AssertFails(ex)
        THEN [g1 EXCEPT !.at = "raised", !.files.para_posi = @ \o lines.para_posi]
        ELSE [g1 EXCEPT !.files = WriteAll(@, lines)]

\* one iteration of the loop over the questions, on the locals g
ExampleStep(g, ex) ==
    LET g1 == [g EXCEPT !.examples = Append(@, ex)]
    IN  IF Filtered(g.data_type, ex)
        THEN [g1 EXCEPT !.filted_cnt = @ + 1]
        ELSE IF AssertFails(ex)
        THEN [g1 EXCEPT !.at = "raised"]
        ELSE [g1 EXCEPT !.files = WriteAll(@, OutLines(ex, g.rich_feature))]

\* the next question of the split is handled
ProcessExample(ex) ==
    /\ gen.kind = "pt_style"
    /\ gen.at = "loop"
    /\ Len(gen.examples) < MaxExamples
    /\ gen' = ExampleStep(gen, ex)
    /\ UNCHANGED <<dec, model, matching, state, beam, pc, call, last, count, enc>>

\* the split has no further question: the files are closed and the totals
\* printed; the train split prints filted_cnt / total_num, which divides by
\* zero for a split without questions
CloseFiles ==
    /\ gen.kind = "pt_style"
    /\ gen.at = "loop"
    /\ gen' = IF gen.data_type = "train" /\ Len(gen.examples) = 0
              THEN [gen EXCEPT !.at = "raised"]
              ELSE [gen EXCEPT !.at = "closed",
                               !.report = IF gen.data_type = "train"
                                          THEN <<"total", Len(gen.examples), "filted", gen.filted_cnt>>
                                          ELSE <<"total", Len(gen.examples)>>]
    /\ UNCHANGED <<dec, model, matching, state, beam, pc, call, last, count, enc>>

\* the paragraph "the cat . new york the": two sentences of two words, with
\* their tags
Paragraph == << <<the, cat>>, <<new_york, the>> >>

Tags(t) == << <<t, t>>, <<t, t>> >>

\* the questions of a split: the answer is "cat", "new york", "cat new york"
\* or given by a span whose end word is 0 (the second assertion fails: the
\* word before the end is looked up at index -1 of the end sentence); the
\* question is "the cat", "the" or "new york"; and one example whose tags
\* lack a word
Examples ==
    {[context |-> Paragraph, ner |-> Tags(<<"N">>), pos |-> Tags(<<"P">>), ans_span |-> sp, q |-> q] :
        sp \in { << <<0, 1>>, <<0, 2>> >>, << <<1, 0>>, <<1, 1>> >>, << <<0, 1>>, <<1, 1>> >>, << <<0, 1>>, <<1, 0>> >> },
        q \in { <<the, cat>>, <<the>>, <<new_york>> }}
    \cup {[context |-> Paragraph, ner |-> << <<<<"N">>, <<"N">>>>, <<<<"N">>>> >>, pos |-> Tags(<<"P">>), ans_span |-> << <<0, 1>>, <<0, 2>> >>, q |-> <<the, cat>>]}

NextGen ==
    \/ (gen.kind = "pt_style" /\ gen.at = "loop" /\ \E ex \in Examples : ProcessExample(ex))
    \/ CloseFiles

InitGen ==
    /\ dec \in {[bidirectional_encoder |-> TRUE, num_layers |-> NumLayers, coverage |-> FALSE, copy |-> FALSE, input_feed |-> TRUE]}
    /\ model = NoModel
    /\ state = NoState
    /\ beam = 0
    /\ pc = "new"
    /\ call = NoCall
    /\ last = [op |-> "construct", raised |-> FALSE]
    /\ count = [calls |-> 0, positions |-> 0]
    /\ enc = NoEnc
    /\ matching = NoMatching
    /\ gen \in {StartGenerator(data_type, rich_feature) : data_type \in {"train", "dev", "test", "valid"}, rich_feature \in BOOLEAN}

SpecGen == InitGen /\ [][NextGen]_vars

\* --------------------------------------------------------------------- claims
\* row of beam slot k (from 0) of sentence idx (from 0) in a batch axis of
\* beam_size * nsent rows, from 1
SlotRow(k, idx, nsent) == k * nsent + idx + 1

\* C1: beam_update(idx, positions, beam_size) leaves, in every hidden component
\* and in the input feed, in slot k of sentence idx the value that slot
\* positions[k] of sentence idx held before the call.  (That the input feed is
\* the updated one follows from BeamUpdate; stated first, it dismisses the
\* arguments a step was not made with before the whole state is compared.)
C1_BeamUpdateSelects == [][(last'.op = "beam_update" /\ ~last'.raised) => (\A idx \in 0..(MaxBatch - 1) : \A positions \in [1..beam -> 0..(beam - 1)] : ((state'.input_feed = BeamUpdateTensor(state.input_feed, idx, positions, beam)) /\ BeamUpdate(idx, positions)) => (\A e \in 1..Len(All(state)) : \A l \in 1..Len(All(state)[e]) : \A k \in 0..(beam - 1) : All(state)'[e][l][SlotRow(k, idx, BatchOf(state) \div beam)] = All(state)[e][l][SlotRow(positions[k + 1], idx, BatchOf(state) \div beam)]))]_vars

\* a beam_update on two sentences and two slots has moved an output of the
\* decoder to a row it was not made in
C1_Witness == /\ last.op = "beam_update" /\ ~last.raised
              /\ beam >= 2 /\ BatchOf(state) >= 2 * beam
              /\ \E j \in 1..BatchOf(state) : state.input_feed[1][j][1][1] = "out" /\ state.input_feed[1][j][1][4] # j

\* C2: repeat_beam_size_times(K) on a batch of B rows leaves K*B rows in every
\* hidden component and in the input feed, row j (from 0) holding what row
\* j mod B held.
C2_RepeatTiles == [][\A K \in 1..MaxBeam : RepeatBeamSizeTimes(K) => (\A e \in 1..Len(All(state)) : \A l \in 1..Len(All(state)[e]) : /\ Len(All(state)'[e][l]) = K * BatchOf(state) /\ \A j \in 0..(K * BatchOf(state) - 1) : All(state)'[e][l][j + 1] = All(state)[e][l][(j % BatchOf(state)) + 1])]_vars

\* a state of two different sentences has been replicated twice or more
C2_Witness == /\ last.op = "repeat"
              /\ beam >= 2 /\ BatchOf(state) >= 2 * beam
              /\ state.hidden[1][1][1] # state.hidden[1][1][2]

\* entry x of layer l, batch element b of the direction-merged encoder state c
MergedEnc(d, c, l, b, x) == IF d.bidirectional_encoder THEN (IF x <= EncDim THEN <<"enc", c, 2 * l - 1, b, x>> ELSE <<"enc", c, 2 * l, b, x - EncDim>>) ELSE <<"enc", c, l, b, x>>

\* a fresh state: input feed 1 x B x hidden_size of zeros, hidden a tuple that
\* holds the direction-merged final state of the encoder
FreshFeedAndHidden ==
    /\ Size(state.input_feed) = <<1, BatchOf(state), HiddenSize(dec)>>
    /\ \A b \in 1..BatchOf(state) : \A x \in 1..HiddenSize(dec) : state.input_feed[1][b][x] = Zero
    /\ Len(state.hidden) = (IF last.is_tuple THEN 2 ELSE 1)
    /\ \A c \in 1..Len(state.hidden) :
          ( /\ Size(state.hidden[c]) = <<dec.num_layers, BatchOf(state), HiddenSize(dec)>>
            /\ \A l \in 1..dec.num_layers : \A b \in 1..BatchOf(state) : \A x \in 1..HiddenSize(dec) : state.hidden[c][l][b][x] = MergedEnc(dec, c, l, b, x) )

\* C10 as stated: the state init_decoder_state returns has an all-zero input
\* feed of shape 1 x B x hidden_size, a coverage accumulator of zeros, and the
\* direction-merged encoder state as its hidden tuple.
C10_Original ==
    (last.op = "init") =>
        ( /\ FreshFeedAndHidden
          /\ state.coverage # None
          /\ \A b \in 1..Len(state.coverage[1]) : \A p \in 1..Len(state.coverage[1][b]) : state.coverage[1][b][p] = 0 )

\* C10 as amended: the same, with no coverage accumulator at all (None); the
\* decoder takes the first attention vector as the coverage.
C10_FreshState == (last.op = "init") => (FreshFeedAndHidden /\ state.coverage = None)

\* a state made from a bidirectional encoder that returned a single tensor
C10_Witness == /\ last.op = "init" /\ ~last.is_tuple
               /\ dec.bidirectional_encoder /\ BatchOf(state) >= 2

\* C3: the recurrent cell's input at position 0 is the embedded token joined
\* with the stored input feed, at position t > 0 the embedded token joined with
\* the output of position t-1; positions are taken in order, each after the
\* output of the one before exists.
C3_InputFeedOrder ==
    (pc = "loop") =>
        ( /\ Len(call.log) = call.i
          /\ Len(call.outputs) = call.i
          /\ call.i <= call.tgt_len
          /\ \A t \in 1..call.i :
                ( /\ call.log[t].pos = t
                  /\ Len(call.log[t].input) = call.batch
                  /\ \A b \in 1..call.batch : call.log[t].input[b] = Emb(call.n, t, call.batch)[b] \o (IF t = 1 THEN state.input_feed[1][b] ELSE call.outputs[t - 1][b]) ) )

\* the second call of a session is past its second position
C3_Witness == pc = "loop" /\ call.n >= 2 /\ call.i >= 2 /\ call.batch >= 2

\* the sum of the standard attention weights of positions 1..t
RECURSIVE SumStd(_, _, _, _)
SumStd(std, t, b, p) == IF t = 0 THEN 0 ELSE std[t][b][p] + SumStd(std, t - 1, b, p)

\* the coverage the state held when the call began, broadcast over the batch
PriorCoverage(b, p) == IF state.coverage = None THEN 0 ELSE state.coverage[1][IF Len(state.coverage[1]) = 1 THEN 1 ELSE b][p]

\* C9: with coverage enabled, after positions 1..t the coverage is the stored
\* coverage plus the standard attention of positions 1..t, entry t of the
\* "coverage" list is that value, and coverage never decreases.
C9_CoverageAccumulates ==
    (pc = "loop" /\ dec.coverage) =>
        ( /\ Len(call.attns["coverage"]) = call.i
          /\ \A t \in 1..call.i : \A b \in 1..call.batch : \A p \in 1..CtxLen :
                ( /\ call.attns["coverage"][t][b][p] = PriorCoverage(b, p) + SumStd(call.attns["std"], t, b, p)
                  /\ call.attns["coverage"][t][b][p] >= (IF t = 1 THEN PriorCoverage(b, p) ELSE call.attns["coverage"][t - 1][b][p]) )
          /\ ((call.i >= 1) => (call.coverage = call.attns["coverage"][call.i])) )

\* a call that began with stored coverage is past its second position
C9_Witness == pc = "loop" /\ dec.coverage /\ state.coverage # None /\ call.i >= 2 /\ call.batch >= 2

\* the answer indicator of batch element i at position s (from 1) of the input
\* of the encoder call
Marked(i, s) == enc.input[s][i][2] = AnsIndicator

\* C5: reverse returns, for batch element i of length l (1 <= l <= S), at
\* position j < l the input's position l-1-j and at position j >= l the
\* input's position j; the input tensor is as it was.
C5_ReverseKeepsPadding ==
    (enc.kind = "lua" /\ enc.input_reversed # None) =>
        ( /\ enc.input_after = enc.input
          /\ Len(enc.input_reversed) = Len(enc.input)
          /\ \A i \in 1..Len(enc.lengths) :
                ( (1 <= enc.lengths[i] /\ enc.lengths[i] <= Len(enc.input)) =>
                    (\A j \in 0..(Len(enc.input) - 1) : enc.input_reversed[j + 1][i] = enc.input[(IF j < enc.lengths[i] THEN enc.lengths[i] - 1 - j ELSE j) + 1][i]) ) )

\* a batch element shorter than the padded size and longer than one position
\* has been reversed
C5_Witness == /\ enc.kind = "lua" /\ enc.input_reversed # None
              /\ \E i \in 1..Len(enc.lengths) : enc.lengths[i] >= 2 /\ enc.lengths[i] < Len(enc.input)

\* the marked positions of batch element i are exactly a..b (from 1)
RunIs(i, a, b) == \A s \in 1..Len(enc.input) : Marked(i, s) <=> (a <= s /\ s <= b)

\* the encoder call got as far as get_ans_posi
SpanExtracted == enc.kind \in {"lua", "py2"} /\ enc.at \notin {"check_args", "reverse", "pack"}

\* C6: when every batch element has one contiguous non-empty marked run,
\* get_ans_posi returns for each the position (from 0) of the first marked
\* position and one past the position of the last.
C6_AnsPosiOfRun ==
    (SpanExtracted /\ (\A i \in 1..Len(enc.lengths) : \E a \in 1..Len(enc.input) : \E b \in a..Len(enc.input) : RunIs(i, a, b))) =>
        ( /\ enc.ans_posi # None
          /\ \A i \in 1..Len(enc.lengths) : \A a \in 1..Len(enc.input) : \A b \in a..Len(enc.input) :
                ( RunIs(i, a, b) => (enc.ans_posi[1][i] = a - 1 /\ enc.ans_posi[2][i] = b) ) )

\* two batch elements with different runs, one longer than a position
C6_Witness == /\ SpanExtracted /\ enc.ans_posi # None /\ Len(enc.lengths) >= 2
              /\ \E a \in 1..Len(enc.input) : \E b \in (a + 1)..Len(enc.input) : RunIs(1, a, b)
              /\ \E a \in 2..Len(enc.input) : \E b \in a..Len(enc.input) : RunIs(2, a, b)

\* batch element i has no marked position
Unmarked(i) == \A s \in 1..Len(enc.input) : ~Marked(i, s)

\* C7 as stated: for a batch element with no marked position the span
\* extraction returns start = end, and the encoder call completes.
C7_Original ==
    (enc.kind \in {"lua", "py2"} /\ ~CheckArgsRaises(enc.input, enc.lengths) /\ ~PackRaises(enc.lengths) /\ (enc.kind = "lua" => ~ReverseRaises(enc.input, enc.lengths))) =>
        (\A i \in 1..Len(enc.lengths) : Unmarked(i) => (~enc.raised /\ enc.ans_posi # None /\ enc.ans_posi[1][i] = enc.ans_posi[2][i]))

\* C7 as amended: when some batch element has no marked position (in a call
\* that passes _check_args) the span extraction raises, no interval is
\* returned for any batch element, and the encoder call ends there without a
\* result.
C7_EmptyRunRaises ==
    (enc.kind \in {"lua", "py2"} /\ ~CheckArgsRaises(enc.input, enc.lengths) /\ (\E i \in 1..Len(enc.lengths) : Unmarked(i))) =>
        ( /\ enc.raised
          /\ enc.ans_posi = None
          /\ ((~PackRaises(enc.lengths) /\ (enc.kind = "lua" => ~ReverseRaises(enc.input, enc.lengths))) => (enc.at = "get_ans_posi")) )

\* a call with accepted lengths, one batch element marked and one not
C7_Witness == /\ enc.kind = "py2" /\ enc.at = "get_ans_posi" /\ Len(enc.lengths) >= 2
              /\ Unmarked(2) /\ ~Unmarked(1)

\* the answer encoding of the call has been put back in batch order
AnswerEncoded == enc.kind \in {"py3", "match"} /\ enc.ans_outputs # None

\* C4: selecting the columns with idx_sort and then with idx_unsort gives back
\* the batch order: idx_unsort undoes idx_sort, and column b of the answer
\* outputs and of the final h and c is what the layer made of column b of the
\* answers under its own length, whatever the lengths and however ties fell.
C4_UnsortRestoresOrder ==
    AnswerEncoded =>
        ( /\ IndexSelect1(IndexSelect1(enc.ans_input, enc.idx_sort), enc.idx_unsort) = enc.ans_input
          /\ \A b \in 1..Len(enc.ans_lengths) :
                ( /\ \A t \in 1..Len(enc.ans_outputs) : enc.ans_outputs[t][b] = (IF t <= enc.ans_lengths[b] THEN << <<"ans", Prefix(enc.ans_input, b, enc.ans_lengths[b]), t>> >> ELSE <<Zero>>)
                  /\ \A c \in 1..2 : \A d \in 1..2 : enc.ans_hidden[c][d][b] = << <<"ans", c, d, Prefix(enc.ans_input, b, enc.ans_lengths[b])>> >> ) )

\* three answers, two of one length, sorted by a permutation that is not its
\* own inverse
C4_Witness == /\ AnswerEncoded /\ Len(enc.ans_lengths) >= 3
              /\ enc.idx_sort # enc.idx_unsort
              /\ \E b, c \in 1..Len(enc.ans_lengths) : b # c /\ enc.ans_lengths[b] = enc.ans_lengths[c]

\* the sum of the numerators of the weights of row (b, s) over the answer
\* positions 1..n that hold a word
RECURSIVE SumWords(_, _, _)
SumWords(b, s, n) == IF n = 0 THEN 0 ELSE (IF enc.ans_input[n][b][1] # BlankIdx THEN enc.alpha[b][s][n].num ELSE 0) + SumWords(b, s, n - 1)

\* C8: for every batch element with a word among its answer positions and
\* every passage position, the weight on each <blank> answer position is zero
\* and the weights on the others sum to one.
C8_PaddingGetsNoWeight ==
    (enc.kind = "match" /\ enc.alpha # None) =>
        (\A b \in 1..Len(enc.alpha) :
            ( (\E a \in 1..Len(enc.ans_input) : enc.ans_input[a][b][1] # BlankIdx) =>
                (\A s \in 1..Len(enc.alpha[b]) :
                    ( /\ \A a \in 1..Len(enc.alpha[b][s]) : (enc.ans_input[a][b][1] = BlankIdx) => (enc.alpha[b][s][a].num = 0)
                      /\ enc.alpha[b][s][1].den > 0
                      /\ SumWords(b, s, Len(enc.alpha[b][s])) = enc.alpha[b][s][1].den ) ) ))

\* a batch of two or more answers, one of them with a <blank> and with a word
\* that scored above the least
C8_Witness == /\ enc.kind = "match" /\ enc.alpha # None
              /\ \E b \in 1..Len(enc.alpha) : \E a1, a2 \in 1..Len(enc.ans_input) : enc.ans_input[a1][b][1] = BlankIdx /\ enc.ans_input[a2][b][1] # BlankIdx /\ enc.alpha[b][1][a2].num > 1
              /\ Len(enc.alpha) >= 2

\* C11: a StdRNNDecoder built with copy or coverage attention ends every
\* forward call at a failed assertion (the batch-size assertion of forward or
\* the two assertions that open _run_forward_pass), before self.rnn runs, and
\* the call leaves the decoder state as it was.
C11_StdRejectsCopyCoverage ==
    [][(~dec.input_feed /\ (dec.copy \/ dec.coverage) /\ last'.op = "forward") =>
          ( /\ last'.raised
            /\ last'.at \in {"aeq", "assert"}
            /\ state' = state
            /\ call' = NoCall
            /\ count' = count )]_vars

C11_Witness == ~dec.input_feed /\ dec.coverage /\ ~dec.copy /\ state # NoState /\ last.op = "forward" /\ last.raised /\ last.at = "assert"

\* C12: while a decoder call runs and when it has returned, its attention map
\* has the key "std", the key "coverage" exactly if the decoder was built with
\* coverage attention and the key "copy" exactly if it was built with copy
\* attention; every entry holds one weight matrix per position processed so
\* far, a later position is appended after the earlier ones, and at the return
\* every entry holds one per target position.
C12_AttentionMap ==
    [][(last'.op = "forward" /\ ~last'.raised /\ call'.n > 0) =>
          ( /\ "std" \in DOMAIN call'.attns
            /\ DOMAIN call'.attns \subseteq {"std", "coverage", "copy"}
            /\ (("coverage" \in DOMAIN call'.attns) <=> dec.coverage)
            /\ (("copy" \in DOMAIN call'.attns) <=> dec.copy)
            /\ (\A k \in DOMAIN call'.attns :
                   ( /\ Len(call'.attns[k]) = call'.i
                     /\ (\A t \in 1..call'.i : Len(call'.attns[k][t]) = call'.batch)
                     /\ ((call.n = call'.n) => (\A t \in 1..call.i : call'.attns[k][t] = call.attns[k][t])) ))
            /\ ((pc' = "idle") => (call'.i = call'.tgt_len)) )]_vars

C12_Witness == pc = "idle" /\ last.op = "forward" /\ ~last.raised /\ call.n > 0 /\ dec.copy /\ dec.coverage /\ call.tgt_len >= 2 /\ call.batch >= 2

\* C13 as stated: every forward call of an NMTModel or a SelEncNMTModel that
\* returns, returns the decoder's outputs together with the attention map and
\* the final state the decoder call produced, however the model was built.
C13_Original ==
    (last.op = "model_forward" /\ ~last.raised) =>
        ( /\ last.ret[1] = call.outputs
          /\ last.ret[2] = call.attns
          /\ last.ret[3] = state )

\* C13: a forward call of an NMTModel or a SelEncNMTModel that returns,
\* returns the decoder's outputs; built without multigpu it returns with them
\* the attention map and the final state the decoder call produced, built
\* with multigpu it returns None in the place of both.
C13_ReturnsDecoderResults ==
    (last.op = "model_forward" /\ ~last.raised) =>
        ( /\ last.ret[1] = call.outputs
          /\ Len(last.ret[1]) = call.tgt_len
          /\ (IF model.multigpu
               THEN (last.ret[2] = None /\ last.ret[3] = None)
               ELSE (last.ret[2] = call.attns /\ last.ret[3] = state)) )

C13_Witness == last.op = "model_forward" /\ ~last.raised /\ ~model.multigpu /\ model.kind = "selenc" /\ last.args.given /\ count.calls >= 2 /\ last.ret[3] = state /\ last.ret[2] = call.attns

\* C14: a model forward call whose lengths are not as many as the source has
\* columns ends at the equality assertion of the encoder's _check_args; one
\* whose target has another batch size than the context ends at the equality
\* assertion of the decoder's forward; one of an input-feeding decoder whose
\* target has another batch size than the stored input feed ends at the
\* equality assertion of its forward pass.  None of them changes the decoder
\* state or counts as a decoder call.
C14_ShapeMismatchAborts ==
    [][(last'.op = "model_forward") =>
          ( /\ (last'.args.n_lengths # last'.args.src_batch) =>
                   (last'.raised /\ last'.at = "check_args" /\ state' = state /\ count' = count)
            /\ (last'.args.n_lengths = last'.args.src_batch /\ last'.args.tgt_batch # last'.args.src_batch) =>
                   (last'.raised /\ last'.at = "aeq" /\ state' = state /\ count' = count)
            /\ (last'.args.n_lengths = last'.args.src_batch /\ last'.args.tgt_batch = last'.args.src_batch /\ dec.input_feed /\ last'.args.given /\ last'.args.tgt_batch # BatchOf(state)) =>
                   (last'.raised /\ last'.at = "aeq_feed" /\ state' = state /\ count' = count) )]_vars

C14_Witness == last.op = "model_forward" /\ last.raised /\ last.at = "aeq_feed" /\ last.args.given /\ state # NoState /\ count.calls >= 1

\* some length of the call is below 1 or beyond the padded size of its input
BadLength == \E i \in 1..Len(enc.lengths) : enc.lengths[i] < 1 \/ enc.lengths[i] > Len(enc.input)

\* C15 as stated: a call of a MeanEncoder, an RNNEncoder or a PyBiRNNEncoder
\* with a length below 1 or beyond the padded size ends at the argument check,
\* before the embeddings are computed.
C15_Original ==
    (enc.kind \in {"mean", "rnn", "pybi"} /\ BadLength) =>
        (enc.raised /\ enc.at = "check_args" /\ enc.emb = None)

\* the call packed its embeddings with lengths in decreasing order within
\* 1..padded size
Packed == /\ enc.kind \in {"rnn", "pybi"}
          /\ enc.at = "return"
          /\ ~enc.no_pack_padded_seq
          /\ ~BadLength

\* C16: for lengths in decreasing order within 1..padded size, unpacking the
\* packed embeddings gives a tensor of lengths[0] positions that holds the
\* embedding of every position below the length of its column and zeros from
\* the length on; the outputs of the layers, unpacked, are the outputs made at
\* the same position of the same column.
C16_PackUnpackRoundTrip ==
    Packed =>
        ( /\ Len(Unpack(enc.packed_emb)) = enc.lengths[1]
          /\ Len(enc.outputs) = enc.lengths[1]
          /\ \A i \in 1..Len(enc.lengths) : \A t \in 1..enc.lengths[1] :
                ( IF t <= enc.lengths[i]
                  THEN ( /\ Unpack(enc.packed_emb)[t][i] = enc.emb[t][i]
                         /\ (enc.kind = "rnn" => (enc.outputs[t][i] = << <<"rnn", enc.emb[t][i][1]>> >>))
                         /\ (enc.kind = "pybi" => ( /\ Unpack(enc.packed_input2)[t][i] = enc.outputs1[t][i]
                                                    /\ enc.outputs[t][i] = << <<"rnn2", <<"rnn1", enc.emb[t][i][1]>> >> >> )) )
                  ELSE ( /\ Unpack(enc.packed_emb)[t][i] = <<Zero>>
                         /\ enc.outputs[t][i] = <<Zero>> ) ) )

\* columns of different lengths, the shorter one longer than a position
C16_Witness == Packed /\ enc.kind = "pybi" /\ Len(enc.lengths) >= 2 /\ enc.lengths[1] > enc.lengths[2] /\ enc.lengths[2] >= 2

\* the marked positions of batch element i start at a and end at b (from 1)
SpanIs(i, a, b) == Marked(i, a) /\ Marked(i, b) /\ (\A s \in 1..Len(enc.input) : Marked(i, s) => (a <= s /\ s <= b))

\* C17: when the answer span [start, end) of batch element i lies inside its
\* passage, PyBiRNNEncoder2 averages the outputs of column i at the positions
\* start .. end-1, and LuaBiRNNEncoder joins the forward output of column i at
\* position end-1 with the backward output of column i at position start
\* (which the backward layer made at step length-start of the reversed
\* passage).  Positions are from 0 in this statement and from 1 in the model.
C17_SummaryReadsSpan ==
    (enc.kind \in {"lua", "py2"} /\ enc.ans_state # None) =>
        (\A i \in 1..Len(enc.lengths) : \A a \in 1..Len(enc.input) : \A b \in a..Len(enc.input) :
            ( (SpanIs(i, a, b) /\ b <= enc.lengths[i]) =>
                ( /\ (enc.kind = "py2" => (enc.ans_state[i] = <<"mean", i, a, b>>))
                  /\ (enc.kind = "lua" => (enc.ans_state[i] = << <<"fw", i, b>>, <<"bw", i, enc.lengths[i] - a + 1>> >>)) ) ))

\* a passage of three positions with the span [1, 3) next to another passage
C17_Witness == /\ enc.kind = "py2" /\ enc.ans_state # None /\ Len(enc.lengths) >= 2
               /\ enc.lengths[1] = 3 /\ RunIs(1, 2, 3)
               /\ enc.ans_state[1] = <<"mean", 1, 2, 3>>

\* the vocabulary {"Apple": 0, "table": 1, "UNK": 2} and the file of the two
\* lines "apple 0.1 0.2" and "TABLE 0.3 0.4"; Vec(1) stands for (0.1, 0.2)
\* and Vec(2) for (0.3, 0.4)
ExampleVocab == <<Form("apple", "m"), Form("table", "l"), Form("unk", "u")>>

ExampleFile == <<[w |-> Form("apple", "l"), fields |-> Vec(1)], [w |-> Form("table", "u"), fields |-> Vec(2)]>>

\* C18 as stated: on the example vocabulary and file match_embeddings returns a
\* table with the first vector at index 0, the second at index 1 and the
\* random row at index 2, and counts 2 matches and 1 miss.
C18_Original ==
    (matching.at = "return" /\ matching.vocab = ExampleVocab /\ matching.lines = ExampleFile) =>
        ( /\ matching.filtered_embeddings[1] = Floats(Vec(1))
          /\ matching.filtered_embeddings[2] = Floats(Vec(2))
          /\ matching.filtered_embeddings[3] = RandomRow(3)
          /\ matching.count = [match |-> 2, miss |-> 1] )

\* a line with a field that is no number, or with a number of fields other
\* than emb_dim
Malformed(line) == FloatRaises(line.fields) \/ Len(line.fields) # emb_dim

\* C19 as stated: reading a malformed line, at any place of the file, leaves
\* the table and the flags as they were and the pass in its loop, from where
\* it goes on to the next line or to its end.
C19_Original ==
    [][(matching.kind = "match_embeddings" /\ Len(matching'.lines) = Len(matching.lines) + 1 /\ Malformed(matching'.lines[Len(matching'.lines)])) =>
          ( /\ matching'.at = "loop"
            /\ matching'.filtered_embeddings = matching.filtered_embeddings
            /\ matching'.done_flag = matching.done_flag )]_vars

\* line k of the file is well-formed and matches vocabulary entry i (from 1)
MatchesEntry(k, i) == /\ ~Malformed(matching.lines[k])
                      /\ MatchTier(matching.vocab, matching.lines[k].w) # "none"
                      /\ MatchId(matching.vocab, matching.lines[k].w) = i

\* line k matches by its exact surface form
ExactLine(k) == MatchTier(matching.vocab, matching.lines[k].w) = "exact"

\* C20 as stated: when the well-formed lines that match a vocabulary entry are
\* several and all match it by exact form, or all by a case-folded form, the
\* entry ends with the vector of the first of them.
C20_Original ==
    (matching.at = "return") =>
        (\A i \in 1..Len(matching.vocab) : \A k1 \in 1..Len(matching.lines) : \A k2 \in (k1 + 1)..Len(matching.lines) :
            ( ( /\ MatchesEntry(k1, i)
                /\ MatchesEntry(k2, i)
                /\ (\A k \in 1..(k1 - 1) : ~MatchesEntry(k, i))
                /\ (\A k \in 1..Len(matching.lines) : MatchesEntry(k, i) => (ExactLine(k) <=> ExactLine(k1))) ) =>
              (matching.filtered_embeddings[i] = Floats(matching.lines[k1].fields)) ))

\* the last line read so far that is well-formed and has the exact surface form
\* of vocabulary entry i (from 1); 0 when there is none
LastExact(i) ==
    LET ks == {k \in 1..Len(matching.lines) : MatchesEntry(k, i) /\ ExactLine(k)}
    IN  IF ks = {} THEN 0 ELSE CHOOSE k \in ks : \A j \in ks : j <= k

\* C21: once the file has had a well-formed line with the exact surface form of
\* a vocabulary entry, the entry holds, from then on and at the return, the
\* vector of an exact line (the last one read), whatever case-folded matches of
\* the entry were read before or after it: a case-folded match does not
\* overwrite an exact one, and an exact one replaces a case-folded one.
C21_ExactOverFolded ==
    (matching.kind = "match_embeddings" /\ matching.at # "raised") =>
        (\A i \in 1..Len(matching.vocab) :
            (LastExact(i) # 0) =>
                ( /\ matching.filtered_embeddings[i] = Floats(matching.lines[LastExact(i)].fields)
                  /\ matching.done_flag[i] = 1 ))

\* vocabulary {"APPLE", "table"}; "apple" matches "APPLE" through upper() only.
\* The file is: "apple" with the first vector, "APPLE" with the second, "apple"
\* with the first again; the entry ends with the second vector.
C21_Witness ==
    /\ matching.at = "return"
    /\ matching.vocab = <<Form("apple", "u"), Form("table", "l")>>
    /\ matching.lines = <<[w |-> Form("apple", "l"), fields |-> Vec(1)],
                          [w |-> Form("apple", "u"), fields |-> Vec(2)],
                          [w |-> Form("apple", "l"), fields |-> Vec(1)]>>
    /\ matching.filtered_embeddings[1] = Floats(Vec(2))

\* the vocabulary entries (from 1) that some well-formed line of the file
\* matches, by exact or case-folded form: the first such line gives the entry
\* a vector
Received == {i \in 1..Len(matching.vocab) : \E k \in 1..Len(matching.lines) : MatchesEntry(k, i)}

\* C22: at the return, match is the number of distinct vocabulary entries that
\* received a vector from a line of the file, miss the number of the others,
\* the two add up to the size of the vocabulary, and every entry counted as a
\* miss holds its initial random row while no entry counted as a match does.
C22_MatchMissCounts ==
    (matching.at = "return") =>
        ( /\ matching.count.match = Cardinality(Received)
          /\ matching.count.miss = Len(matching.vocab) - Cardinality(Received)
          /\ matching.count.match + matching.count.miss = Len(matching.vocab)
          /\ \A i \in 1..Len(matching.vocab) :
                (i \in Received) <=> (matching.filtered_embeddings[i] # RandomRow(i)) )

\* two lines of the file match the same entry and another entry is missed
C22_Witness ==
    /\ matching.at = "return"
    /\ matching.count.miss >= 1
    /\ \E i \in Received : \E k1 \in 1..Len(matching.lines) : \E k2 \in (k1 + 1)..Len(matching.lines) :
          MatchesEntry(k1, i) /\ MatchesEntry(k2, i)
    /\ matching.count.match = 1

\* the sentences that hold the answer of ex and its question share a word
\* that is no stop word
SharesContentWord(ex) ==
    \E s \in (ex.ans_span[1][1] + 1)..(ex.ans_span[2][1] + 1) : \E w \in 1..Len(ex.context[s]) : \E j \in 1..Len(ex.q) :
        ex.context[s][w] = ex.q[j] /\ ex.q[j] \notin stop_words

\* C23: PtStyleDataGenerator leaves an example out exactly when the split is
\* train and the sentences holding the answer share no word outside the stop
\* words with the question; leaving it out adds one to filted_cnt, writes
\* nothing and raises nothing; in the dev and test splits filted_cnt stays 0
\* and every example that passes the assertions is written.
C23_FilterOnlyTrain ==
    [][(gen.kind = "pt_style" /\ Len(gen'.examples) = Len(gen.examples) + 1) =>
          LET ex == gen'.examples[Len(gen'.examples)]
              drop == gen.data_type = "train" /\ ~SharesContentWord(ex)
          IN  /\ drop => ( /\ gen'.filted_cnt = gen.filted_cnt + 1
                           /\ gen'.files = gen.files
                           /\ gen'.at = "loop" )
              /\ (~drop) => ( /\ gen'.filted_cnt = gen.filted_cnt
                              /\ (gen'.at = "loop") => (Len(gen'.files.tgt) > Len(gen.files.tgt)) )
              /\ (gen.data_type # "train") => (gen'.filted_cnt = 0)]_vars

\* a train split: the question "new york" with the answer "cat" is left out
\* (the paragraph holds "new york", the answer's sentence does not), the
\* question "the cat" with the same answer is written
C23_Witness ==
    /\ gen.kind = "pt_style" /\ gen.data_type = "train" /\ gen.at = "loop"
    /\ Len(gen.examples) = 2
    /\ gen.examples[1].q = <<new_york>> /\ gen.examples[1].ans_span = << <<0, 1>>, <<0, 2>> >>
    /\ gen.examples[2].q = <<the, cat>> /\ gen.examples[2].ans_span = << <<0, 1>>, <<0, 2>> >>
    /\ gen.filted_cnt = 1
    /\ gen.files.tgt = <<"t", " ", "c", "\n">>

\* the lines of a text file: the pieces that end with "\n", and what follows
\* the last "\n" if anything does
RECURSIVE LinesOf(_)
LinesOf(text) ==
    IF text = <<>> THEN <<>>
    ELSE IF \A i \in 1..Len(text) : text[i] # "\n" THEN <<text>>
    ELSE LET k == CHOOSE i \in 1..Len(text) : text[i] = "\n" /\ \A j \in 1..(i - 1) : text[j] # "\n"
         IN  <<SubSeq(text, 1, k)>> \o LinesOf(SubSeq(text, k + 1, Len(text)))

\* the examples whose iteration has come to its end: all those read, but the
\* one an assertion failed on
Processed == IF gen.at = "raised" /\ gen.examples # <<>> THEN SubSeq(gen.examples, 1, Len(gen.examples) - 1) ELSE gen.examples

\* those of them that were not left out
Written == SelectSeq(Processed, LAMBDA ex : ~(gen.data_type = "train" /\ ~SharesContentWord(ex)))

\* C24: at every point between two examples, at the end, and after an
\* assertion has failed on an example, each of the five files holds as many
\* lines as examples were processed minus those left out, and line k of each
\* file is the line of the k-th example written: its paragraph, its paragraph
\* span, its sentences, its sentence span and its question.
C24_FilesAligned ==
    (gen.kind = "pt_style" /\ gen.data_type \in {"train", "dev", "test"}) =>
        ( /\ Len(Written) = Len(Processed) - gen.filted_cnt
          /\ \A f \in {"para_src", "para_posi", "sents_src", "sents_posi", "tgt"} :
                /\ Len(LinesOf(gen.files[f])) = Len(Processed) - gen.filted_cnt
                /\ \A k \in 1..Len(Written) : LinesOf(gen.files[f])[k] = OutLines(Written[k], gen.rich_feature)[f]
          /\ \A k \in 1..Len(Written) : LinesOf(gen.files.tgt)[k] = Join(Written[k].q) \o <<"\n">> )

\* a train split of three examples: one written, one left out, and one on
\* which an assertion failed
C24_Witness ==
    /\ gen.kind = "pt_style" /\ gen.data_type = "train" /\ gen.at = "raised"
    /\ Len(gen.examples) = 3
    /\ gen.filted_cnt = 1
    /\ Len(LinesOf(gen.files.para_src)) = 1
    /\ Len(LinesOf(gen.files.tgt)) = 1

\* a step in which a decoder call returns: the end of the loop of an
\* input-feeding decoder, or the whole call of a standard decoder
ForwardReturns ==
    \/ (pc = "loop" /\ pc' = "idle" /\ ~last'.raised)
    \/ (pc = "idle" /\ ~dec.input_feed /\ last'.op = "forward" /\ ~last'.raised /\ count'.calls = count.calls + 1)

\* C25: a decoder call over T >= 1 target positions that returns leaves in the
\* state it was given the recurrent hidden state made at position T, as input
\* feed the output of position T, and as coverage the coverage it held before
\* plus the standard attention of positions 1..T (None for a decoder without
\* coverage); the state is written at that one point of the call: no position
\* of the loop and no call that raises changes it.
C25_StateAfterForward ==
    [][ /\ ForwardReturns =>
            ( /\ call'.tgt_len >= 1
              /\ Len(state'.hidden) = Len(state.hidden)
              /\ \A c \in 1..Len(state.hidden) : \A l \in 1..Len(state.hidden[c]) : \A b \in 1..Len(state.hidden[c][l]) : \A x \in 1..Len(state.hidden[c][l][b]) :
                    state'.hidden[c][l][b][x] = <<"hid", call'.n, call'.tgt_len, c, l, b, x>>
              /\ state'.input_feed = <<call'.outputs[call'.tgt_len]>>
              /\ \A b \in 1..call'.batch : \A x \in 1..HiddenSize(dec) :
                    state'.input_feed[1][b][x] = <<"out", call'.n, call'.tgt_len, b, x>>
              /\ (~dec.coverage) => (state'.coverage = None)
              /\ dec.coverage =>
                    ( /\ state'.coverage # None
                      /\ \A b \in 1..call'.batch : \A p \in 1..CtxLen :
                            state'.coverage[1][b][p] = PriorCoverage(b, p) + SumStd(call'.attns["std"], call'.tgt_len, b, p) ) )
        /\ (~ForwardReturns /\ (pc = "loop" \/ last'.op = "forward")) => (state' = state) ]_vars

\* the second call of a decoder with coverage has returned after two positions
C25_Witness ==
    /\ pc = "idle" /\ last.op = "forward" /\ ~last.raised
    /\ dec.coverage /\ dec.input_feed
    /\ call.n >= 2 /\ call.tgt_len >= 2 /\ call.i = call.tgt_len
    /\ state.input_feed = <<call.outputs[call.tgt_len]>>
    /\ state.hidden = call.hidden
    /\ state.coverage = <<call.coverage>>

\* the batch row an entry of a state tensor was made in: the encoder's final
\* state, a hidden state of the recurrent cell or a decoder output; 0 for an
\* entry of the all-zero input feed, which is no sentence's
MadeInRow(v) == IF v = Zero THEN 0 ELSE IF v[1] = "hid" THEN v[6] ELSE v[4]

\* the sentence (from 0) of batch row j (from 1) when the batch holds nsent
\* sentences, before or after replication
SentenceOf(j, nsent) == (j - 1) % nsent

\* C26: after repeat_beam_size_times(K) on a state of B sentences and any
\* beam_update calls with that K (and decoder calls between them), every
\* entry of every hidden component and of the input feed in a beam slot of
\* sentence b was made in a row of sentence b; and a beam_update(idx, ...)
\* changes no row of another sentence than idx.
C26_SlotsKeepTheirSentence ==
    [][ /\ (beam' > 0) =>
            (\A e \in 1..Len(All(state)') : \A l \in 1..Len(All(state)'[e]) : \A j \in 1..Len(All(state)'[e][l]) : \A x \in 1..Len(All(state)'[e][l][j]) :
                LET v == All(state)'[e][l][j][x]
                    nsent == BatchOf(state)' \div beam'
                IN  \/ MadeInRow(v) = 0
                    \/ SentenceOf(MadeInRow(v), nsent) = SentenceOf(j, nsent))
        /\ (last'.op = "beam_update" /\ ~last'.raised) =>
            (\A idx \in 0..(MaxBatch - 1) : \A positions \in [1..beam -> 0..(beam - 1)] :
                ((state'.input_feed = BeamUpdateTensor(state.input_feed, idx, positions, beam)) /\ BeamUpdate(idx, positions)) =>
                    (\A e \in 1..Len(All(state)) : \A l \in 1..Len(All(state)[e]) : \A j \in 1..BatchOf(state) :
                        (SentenceOf(j, BatchOf(state) \div beam) # idx) => (All(state)'[e][l][j] = All(state)[e][l][j])) ) ]_vars

\* two sentences in two slots each: a beam_update has copied the second slot
\* of a sentence, made by the decoder in row 3 or 4, over its first slot
C26_Witness ==
    /\ last.op = "beam_update" /\ ~last.raised
    /\ beam = 2 /\ BatchOf(state) = 4
    /\ \E j \in 1..2 : /\ state.input_feed[1][j][1] # Zero
                       /\ MadeInRow(state.input_feed[1][j][1]) = j + 2
                       /\ MadeInRow(state.hidden[1][1][j][1]) = j + 2

\* C27: beam_update, repeat_beam_size_times and detach leave the coverage of
\* the state as it was; after repeat_beam_size_times(K) with K > 1 on a state
\* that holds a coverage, the coverage has the batch size the state had before
\* and the hidden components and the input feed K times as many rows.
C27_CoverageLeftAlone ==
    [][(last'.op \in {"beam_update", "repeat", "detach"}) =>
          ( /\ state'.coverage = state.coverage
            /\ (last'.op = "repeat" /\ beam' > 1 /\ state.coverage # None) =>
                  ( /\ Len(state'.coverage[1]) = BatchOf(state)
                    /\ BatchOf(state') = beam' * BatchOf(state)
                    /\ \A c \in 1..Len(state'.hidden) : \A l \in 1..Len(state'.hidden[c]) : Len(state'.hidden[c][l]) = beam' * BatchOf(state)
                    /\ Len(state'.coverage[1]) # BatchOf(state') ) )]_vars

\* a state that holds the coverage of a decoder call has been replicated
\* twice or more
C27_Witness ==
    /\ last.op = "repeat" /\ beam >= 2
    /\ state.coverage # None
    /\ Len(state.coverage[1]) * beam = BatchOf(state)

\* C28 as stated: when a decoder call is given context_lengths, every call of
\* an attention module it makes is given them, and every distribution in the
\* attention map it returns, standard or copy, has weight 0 on the context
\* positions from the batch element's length on.
C28_Original ==
    (last.op = "forward" /\ ~last.raised /\ call # NoCall /\ last.context_lengths # None) =>
        ( /\ \A i \in 1..Len(last.attn_calls) : last.attn_calls[i].context_lengths = last.context_lengths
          /\ \A k \in DOMAIN call.attns : \A t \in 1..call.tgt_len : \A b \in 1..call.batch : \A a \in 1..CtxLen :
                (a > last.context_lengths[b]) => (call.attns[k][t][b][a].num = 0) )

\* C29: in PyBiRNNEncoder3 and MatchRNNEncoder the lengths given to pack for
\* the answers are in non-increasing order and hold every given length as
\* often as the given lengths do; column j of the reordered answers is column
\* idx_sort[j] of the given ones, and the j-th sorted length is that column's.
C29_SortedAnswerLengths ==
    (enc.kind \in {"py3", "match"} /\ enc.idx_sort # None) =>
        ( /\ Len(enc.sorted_ans_lengths) = Len(enc.ans_lengths)
          /\ \A j \in 1..(Len(enc.sorted_ans_lengths) - 1) : enc.sorted_ans_lengths[j] >= enc.sorted_ans_lengths[j + 1]
          /\ \A v \in 0..MaxAnsLen : Cardinality({j \in 1..Len(enc.sorted_ans_lengths) : enc.sorted_ans_lengths[j] = v}) = Cardinality({b \in 1..Len(enc.ans_lengths) : enc.ans_lengths[b] = v})
          /\ \A j \in 1..Len(enc.ans_lengths) :
                ( /\ enc.idx_sort[j] \in 0..(Len(enc.ans_lengths) - 1)
                  /\ enc.sorted_ans_lengths[j] = enc.ans_lengths[enc.idx_sort[j] + 1]
                  /\ \A a \in 1..Len(enc.ans_input) : enc.ans_emb[a][j] = enc.ans_input[a][enc.idx_sort[j] + 1] ) )

\* three answers of lengths 1, 2 and 1: the second comes first
C29_Witness ==
    /\ enc.kind = "match" /\ enc.idx_sort # None /\ ~enc.raised
    /\ enc.ans_lengths = <<1, 2, 1>>
    /\ enc.sorted_ans_lengths = <<2, 1, 1>>
    /\ enc.idx_sort[1] = 1
    /\ enc.ans_emb[1][1] = enc.ans_input[1][2]
    /\ enc.ans_emb[1][1] # enc.ans_input[1][1]

\* C30: when every column of the indicator has a marked position, in one run
\* or in several, get_ans_posi of PyBiRNNEncoder2 (in a call that has got past
\* _check_args and pack) does not raise and returns
\* for each column the position (from 0) of its first marked position and one
\* past the position of its last; the answer summary is then the mean of the
\* outputs of that column at all positions from the first to the last marked
\* one, the unmarked ones between them included.
C30_OuterBoundsOfMarks ==
    (enc.kind = "py2" /\ enc.at \notin {"check_args", "pack"} /\ (\A i \in 1..Len(enc.lengths) : ~Unmarked(i))) =>
        ( /\ enc.at # "get_ans_posi"
          /\ enc.ans_posi # None
          /\ \A i \in 1..Len(enc.lengths) : \A a \in 1..Len(enc.input) : \A b \in a..Len(enc.input) :
                ( SpanIs(i, a, b) =>
                    ( /\ enc.ans_posi[1][i] = a - 1
                      /\ enc.ans_posi[2][i] = b
                      /\ ((enc.ans_state # None /\ b <= Len(enc.outputs1)) => (enc.ans_state[i] = <<"mean", i, a, b>>)) ) ) )

\* a column marked at its first and third position and not at its second
C30_Witness ==
    /\ enc.kind = "py2" /\ ~enc.raised /\ enc.lengths[1] = 3
    /\ Marked(1, 1) /\ ~Marked(1, 2) /\ Marked(1, 3)
    /\ enc.ans_posi[1][1] = 0 /\ enc.ans_posi[2][1] = 3
    /\ enc.ans_state[1] = <<"mean", 1, 1, 3>>

====
